---- MODULE Spec2Model ----
(***************************************************************************)
(* A model of mcp-kind-manager: the registry mirror provisioner            *)
(* (internal/registry/mirrors.go), credential discovery                    *)
(* (internal/registry/credentials.go), the cluster configuration builder   *)
(* and validator (internal/kind/config.go) and the cluster lifecycle       *)
(* manager (internal/kind/manager.go).                                     *)
(*                                                                         *)
(* Go strings that the code only compares for equality are TLA+ strings.   *)
(* Go strings that the code inspects (HasPrefix, Contains, TrimSpace) are  *)
(* sequences of tokens, so that the inspection is computed.                *)
(***************************************************************************)
EXTENDS Integers, Sequences, FiniteSets, TLC

\* ------------------------------------------------------------------ bounds

MaxOverrides == 2
MaxLines == 2
MaxFail == 3
MaxControlPlanes == 3
MaxWorkers == 2
MaxRawNodes == 3

\* ------------------------------------------------------------------ state

VARIABLES
    \* configure_registry_mirrors: GenerateMirrorConfig then ApplyMirrorConfig
    overrides,      \* the override list passed to GenerateMirrorConfig
    nodeSelector,       \* the NodeSelector of the commands handed to ApplyMirrorConfig
    mirrorCfg,      \* <<>> or <<MirrorConfig>>: the generated configuration
    genErr,         \* the error of GenerateMirrorConfig, "" for nil
    nodesErr,       \* the error of mgr.GetClusterNodes, "" for nil
    nodes,          \* ApplyMirrorConfig: the enumerated node names
    targetNodes,    \* ApplyMirrorConfig: filterNodes(nodes, cmd.NodeSelector)
    cmdIdx,         \* ApplyMirrorConfig: index of the outer loop
    nodeIdx,        \* ApplyMirrorConfig: index of the inner / restart loop
    results,        \* ApplyMirrorConfig: the accumulated result lines
    applyRet,       \* <<>> while running, <<[results, err]>> once returned
    execLog,        \* every runner invocation made through ExecOnNode, in order
    failCount,      \* number of failed external commands so far
    apc,            \* position inside configure_registry_mirrors
    includeCredentials, \* the include_credentials argument of the tool call
    mirrorCredInfo,       \* handleConfigureRegistryMirrors: <<>> (nil) or <<CredentialInfo>>
    \* FindCredentials
    credRuntime,    \* ri.Runtime
    goos,           \* runtime.GOOS
    env,            \* REGISTRY_AUTH_FILE, XDG_RUNTIME_DIR, DOCKER_CONFIG ("" is <<>>)
    fs,             \* the file behind every candidate path
    credIdx,        \* index of the loop over the candidate paths
    examined,       \* the expanded paths the loop has looked at, in order
    credRet,        \* <<>> while running, <<[info, err]>> once returned
    cpc,            \* position inside FindCredentials
    \* GenerateConfig / ValidateConfig
    opts,           \* the ConfigOptions handed to GenerateConfig
    cfgSource,      \* who wrote the document: "GenerateConfig" or "caller"
    configYAML,     \* the document text
    cfgErr,         \* the error of GenerateConfig, "" for nil
    valErr,         \* the error of ValidateConfig, "" for nil
    kpc,            \* position: "mount", "generate", "validate", "done"
    mountCredentials,   \* the mount_credentials argument of generate_cluster_config
    \* Manager.CreateCluster, one entry per call in progress
    mgrRuntime,     \* m.runtime.Runtime
    createName,     \* the name argument of every call
    createConfig,   \* the configYAML argument of every call
    tmpFile,        \* tmpFile.Name() of every call, "" before os.CreateTemp
    createRet,      \* the (output, error) every call returns
    createPc,       \* position of every call inside CreateCluster
    tmpDir,         \* the files of os.TempDir(): records [name, creator, written, text]
    runnerCalls,    \* every m.runner.Run invocation, with the file it found
    \* Manager: DeleteCluster, ListClusters, GetKubeconfig, GetClusterStatus,
    \* ExecOnNode, GetClusterNodes
    mgrOp,          \* the operation called
    mgrName,        \* its name argument (the node name for ExecOnNode)
    mgrInternal,    \* the internal argument of GetKubeconfig
    listing,        \* GetClusterStatus: the lines of the trimmed "kind get nodes" output
    lineIdx,        \* GetClusterStatus: index of the loop over the lines
    statusNodes,    \* GetClusterStatus: status.Nodes
    mgrRet,         \* <<>> while running, <<[value, err]>> once returned
    mgrCalls,       \* every m.runner.Run invocation of the operation, with its result
    mpc,            \* position inside the operation
    \* Detector.Detect
    hostOS,         \* runtime.GOOS of the host
    onPath,         \* the binaries LookPath finds
    dockerInfoOut,  \* what "docker info --format {{json .}}" returns
    podmanInfoOut,  \* what "podman info --format json" returns
    dockerHost,     \* DOCKER_HOST ("" is <<>>)
    xdgRuntimeDir,  \* XDG_RUNTIME_DIR as detectDockerSocket reads it ("" is <<>>)
    sockets,        \* the socket paths os.Stat finds
    procVersion,    \* /proc/version: <<>> when unreadable, else <<content>>
    detCalls,       \* the LookPath and Run invocations of Detect, in order
    detRet,         \* <<>> while running, <<RuntimeInfo>> once returned
    dpc,            \* position inside Detect / handleDetectEnvironment
    networkAdvice   \* handleDetectEnvironment: <<>> or <<NetworkAdvice>>

applyVars == <<overrides, nodeSelector, mirrorCfg, genErr, nodesErr, nodes, targetNodes, cmdIdx, nodeIdx,
               results, applyRet, execLog, failCount, apc, includeCredentials, mirrorCredInfo>>

credVars == <<credRuntime, goos, env, fs, credIdx, examined, credRet, cpc>>

configVars == <<opts, cfgSource, configYAML, cfgErr, valErr, kpc, mountCredentials>>

createVars == <<mgrRuntime, createName, createConfig, tmpFile, createRet, createPc, tmpDir,
                runnerCalls>>

mgrVars == <<mgrOp, mgrName, mgrInternal, listing, lineIdx, statusNodes, mgrRet, mgrCalls, mpc>>

detectVars == <<hostOS, onPath, dockerInfoOut, podmanInfoOut, dockerHost, xdgRuntimeDir, sockets,
                procVersion, detCalls, detRet, dpc, networkAdvice>>

vars == <<applyVars, credVars, configVars, createVars, mgrVars, detectVars>>

\* the state of the operations a run is not about
notApply == <<credVars, configVars, createVars, mgrVars, detectVars>>
notCred == <<applyVars, configVars, createVars, mgrVars, detectVars>>
notConfig == <<applyVars, credVars, createVars, mgrVars, detectVars>>
notCreate == <<applyVars, credVars, configVars, mgrVars, detectVars>>
notManager == <<applyVars, credVars, configVars, createVars, detectVars>>
notDetect == <<applyVars, credVars, configVars, createVars, mgrVars>>

\* ------------------------------------------------------------------ strings

\* strings.HasPrefix on a token string
HasPrefix(s, p) == Len(s) >= 1 /\ s[1] = p

\* strings.Contains on a token string
Contains(s, tok) == \E i \in DOMAIN s : s[i] = tok

IsSpace(tok) == tok = " "

RECURSIVE TrimLeft(_)
TrimLeft(s) == IF s # <<>> /\ IsSpace(Head(s)) THEN TrimLeft(Tail(s)) ELSE s

RECURSIVE TrimRight(_)
TrimRight(s) ==
    IF s # <<>> /\ IsSpace(s[Len(s)]) THEN TrimRight(SubSeq(s, 1, Len(s) - 1)) ELSE s

\* strings.TrimSpace on one line
TrimSpace(s) == TrimRight(TrimLeft(s))

RECURSIVE DropBlankHead(_)
DropBlankHead(ls) ==
    IF ls # <<>> /\ TrimSpace(Head(ls)) = <<>> THEN DropBlankHead(Tail(ls)) ELSE ls

RECURSIVE DropBlankTail(_)
DropBlankTail(ls) ==
    IF ls # <<>> /\ TrimSpace(ls[Len(ls)]) = <<>>
    THEN DropBlankTail(SubSeq(ls, 1, Len(ls) - 1)) ELSE ls

\* strings.TrimSpace on a multi-line output (a sequence of lines): leading and
\* trailing white space goes, including whole blank lines at either end.
TrimSpaceText(ls) ==
    LET core == DropBlankTail(DropBlankHead(ls))
    IN  IF core = <<>> THEN <<>>
        ELSE IF Len(core) = 1 THEN <<TrimSpace(core[1])>>
        ELSE <<TrimLeft(core[1])>> \o SubSeq(core, 2, Len(core) - 1)
             \o <<TrimRight(core[Len(core)])>>

\* ------------------------------------------------------------------ mirrors.go

\* mutant of generateHostsToml: a mirror without a scheme is written as it is
generateHostsToml_NoDefaultScheme(override) ==
    LET server == IF override.Original = "docker.io"
                  THEN <<"https://", "registry-1.docker.io">>
                  ELSE <<"https://", override.Original>>
        mirrorURL == override.Mirror
    IN  <<  <<"server", server>>,
            <<"host", mirrorURL>>,
            <<"capabilities", <<"pull", "resolve">> >> >>
        \o (IF HasPrefix(mirrorURL, "http://")
            THEN << <<"skip_verify", <<"true">> >> >> ELSE <<>>)

\* generateHostsToml: the lines of hosts.toml for one override
generateHostsToml(override) ==
    LET server == IF override.Original = "docker.io"
                  THEN <<"https://", "registry-1.docker.io">>
                  ELSE <<"https://", override.Original>>
        mirrorURL == IF ~HasPrefix(override.Mirror, "http://")
                        /\ ~HasPrefix(override.Mirror, "https://")
                     THEN <<"http://">> \o override.Mirror
                     ELSE override.Mirror
    IN  <<  <<"server", server>>,
            <<"host", mirrorURL>>,
            <<"capabilities", <<"pull", "resolve">> >> >>
        \o (IF HasPrefix(mirrorURL, "http://")
            THEN << <<"skip_verify", <<"true">> >> >> ELSE <<>>)

\* the first NodeCommand of an override: mkdir -p /etc/containerd/certs.d/<registry>
MkdirCommand(override) ==
    [NodeSelector |-> "all",
     Description  |-> [text |-> "Create registry config directory for",
                       registry |-> override.Original, mirror |-> <<>>],
     Command      |-> [argv |-> <<"mkdir", "-p">>,
                       path |-> <<"/etc/containerd/certs.d/", override.Original>>,
                       body |-> <<>>]]

\* the second NodeCommand of an override: bash -c "cat > .../hosts.toml << EOF ..."
HostsCommand(override) ==
    [NodeSelector |-> "all",
     Description  |-> [text |-> "Configure mirror for",
                       registry |-> override.Original, mirror |-> override.Mirror],
     Command      |-> [argv |-> <<"bash", "-c", "cat >">>,
                       path |-> <<"/etc/containerd/certs.d/", override.Original,
                                  "/hosts.toml">>,
                       body |-> generateHostsToml(override)]]

\* mutant of PostCreateCommands: the file is written before its directory is created
PostCreateCommands_WriteFirst(ovs) ==
    [p \in 1..(2 * Len(ovs)) |->
        IF p % 2 = 1 THEN HostsCommand(ovs[(p + 1) \div 2]) ELSE MkdirCommand(ovs[p \div 2])]

RECURSIVE PostCreateCommands(_)
PostCreateCommands(ovs) ==
    IF ovs = <<>> THEN <<>>
    ELSE <<MkdirCommand(Head(ovs)), HostsCommand(Head(ovs))>>
         \o PostCreateCommands(Tail(ovs))

\* mutant of GenerateMirrorConfig: the directory is not created, one command per override
GenerateMirrorConfig_HostsOnly(ovs, credInfo) ==
    IF Len(ovs) = 0
    THEN [err |-> "at least one registry override is required", cfg |-> <<>>]
    ELSE [err |-> "",
          cfg |-> << [ContainerdPatches  |-> <<"config_path = /etc/containerd/certs.d">>,
                      PostCreateCommands |-> [i \in 1..Len(ovs) |-> HostsCommand(ovs[i])],
                      ExtraMounts |-> <<>>] >>]

\* mutant of GenerateMirrorConfig: any supplied credential file is mounted
GenerateMirrorConfig_MountAny(ovs, credInfo) ==
    IF Len(ovs) = 0
    THEN [err |-> "at least one registry override is required", cfg |-> <<>>]
    ELSE [err |-> "",
          cfg |-> << [ContainerdPatches  |-> <<"config_path = /etc/containerd/certs.d">>,
                      PostCreateCommands |-> PostCreateCommands(ovs),
                      ExtraMounts |->
                          IF credInfo # <<>>
                          THEN << [HostPath      |-> credInfo[1].FilePath,
                                   ContainerPath |-> credInfo[1].MountPath,
                                   ReadOnly      |-> TRUE] >>
                          ELSE <<>>] >>]

\* GenerateMirrorConfig: [err, cfg]; credInfo is <<>> (nil) or <<CredentialInfo>>
GenerateMirrorConfig(ovs, credInfo) ==
    IF Len(ovs) = 0
    THEN [err |-> "at least one registry override is required", cfg |-> <<>>]
    ELSE [err |-> "",
          cfg |-> << [ContainerdPatches  |-> <<"config_path = /etc/containerd/certs.d">>,
                      PostCreateCommands |-> PostCreateCommands(ovs),
                      ExtraMounts |->
                          IF credInfo # <<>> /\ credInfo[1].InlineAuth
                          THEN << [HostPath      |-> credInfo[1].FilePath,
                                   ContainerPath |-> credInfo[1].MountPath,
                                   ReadOnly      |-> TRUE] >>
                          ELSE <<>>] >>]

RECURSIVE SelectNodes(_, _)
SelectNodes(ns, selector) ==
    IF ns = <<>> THEN <<>>
    ELSE LET n == Head(ns)
             keep == CASE selector = "control-plane" -> Contains(n, "control-plane")
                       [] selector = "worker" -> ~Contains(n, "control-plane")
                       [] OTHER -> FALSE
         IN  (IF keep THEN <<n>> ELSE <<>>) \o SelectNodes(Tail(ns), selector)

\* mutant of filterNodes: the "all" selector is not special-cased
filterNodes_NoAll(ns, selector) == SelectNodes(ns, selector)

\* filterNodes
filterNodes(ns, selector) ==
    IF selector = "all" THEN ns ELSE SelectNodes(ns, selector)

\* ------------------------------------------------------------------ config.go

\* Go zero values of the document types
ZeroNetworkConfig ==
    [IPFamily |-> "", APIServerAddress |-> "", APIServerPort |-> 0, PodSubnet |-> "",
     ServiceSubnet |-> "", DisableDefaultCNI |-> FALSE, KubeProxyMode |-> ""]

ZeroNodeConfig ==
    [Role |-> "", Image |-> <<>>, ExtraPortMappings |-> <<>>, ExtraMounts |-> <<>>,
     Labels |-> {}, KubeadmConfigPatches |-> <<>>]

ZeroClusterConfig ==
    [Kind |-> "", APIVersion |-> "", Name |-> "", Nodes |-> <<>>, Networking |-> <<>>,
     FeatureGates |-> {}, ContainerdConfigPatches |-> <<>>]

ZeroConfigOptions ==
    [ClusterName |-> "", NumWorkers |-> 0, NumControlPlanes |-> 0,
     KubernetesVersion |-> <<>>, PortMappings |-> <<>>, ExtraMounts |-> <<>>,
     ContainerdPatches |-> <<>>, PodSubnet |-> "", ServiceSubnet |-> "",
     DisableDefaultCNI |-> FALSE, Labels |-> {}, IPFamily |-> "", KubeProxyMode |-> "",
     APIServerPort |-> 0]

\* A YAML text is a mapping that writes out some keys ("keys") with their values
\* ("v"), or text that yaml.Unmarshal cannot read into the document type.

\* mutant of MarshalNode: the role is not written out
MarshalNode_NoRole(node) == [keys |-> {}, v |-> node]

\* yaml.Marshal of a NodeConfig: role always, every other field unless empty
MarshalNode(node) ==
    [keys |-> {"role"}
              \cup (IF node.Image # <<>> THEN {"image"} ELSE {})
              \cup (IF Len(node.ExtraPortMappings) > 0 THEN {"extraPortMappings"} ELSE {})
              \cup (IF Len(node.ExtraMounts) > 0 THEN {"extraMounts"} ELSE {})
              \cup (IF node.Labels # {} THEN {"labels"} ELSE {})
              \cup (IF Len(node.KubeadmConfigPatches) > 0 THEN {"kubeadmConfigPatches"}
                    ELSE {}),
     v |-> node]

\* yaml.Marshal of a NetworkConfig: every field unless empty
MarshalNetwork(net) ==
    [keys |-> (IF net.IPFamily # "" THEN {"ipFamily"} ELSE {})
              \cup (IF net.APIServerAddress # "" THEN {"apiServerAddress"} ELSE {})
              \cup (IF net.APIServerPort # 0 THEN {"apiServerPort"} ELSE {})
              \cup (IF net.PodSubnet # "" THEN {"podSubnet"} ELSE {})
              \cup (IF net.ServiceSubnet # "" THEN {"serviceSubnet"} ELSE {})
              \cup (IF net.DisableDefaultCNI THEN {"disableDefaultCNI"} ELSE {})
              \cup (IF net.KubeProxyMode # "" THEN {"kubeProxyMode"} ELSE {}),
     v |-> net]

\* yaml.Marshal of a ClusterConfig: kind and apiVersion always, the rest unless empty
YamlMarshal(cfg) ==
    [syntax |-> "mapping",
     keys |-> {"kind", "apiVersion"}
              \cup (IF cfg.Name # "" THEN {"name"} ELSE {})
              \cup (IF Len(cfg.Nodes) > 0 THEN {"nodes"} ELSE {})
              \cup (IF cfg.Networking # <<>> THEN {"networking"} ELSE {})
              \cup (IF cfg.FeatureGates # {} THEN {"featureGates"} ELSE {})
              \cup (IF Len(cfg.ContainerdConfigPatches) > 0
                    THEN {"containerdConfigPatches"} ELSE {}),
     v |-> [kind |-> cfg.Kind, apiVersion |-> cfg.APIVersion, name |-> cfg.Name,
            nodes |-> [i \in DOMAIN cfg.Nodes |-> MarshalNode(cfg.Nodes[i])],
            networking |-> IF cfg.Networking # <<>> THEN MarshalNetwork(cfg.Networking[1])
                           ELSE MarshalNetwork(ZeroNetworkConfig),
            featureGates |-> cfg.FeatureGates,
            containerdConfigPatches |-> cfg.ContainerdConfigPatches]]

\* yaml.Unmarshal into a NodeConfig: a key the text lacks leaves the zero value
UnmarshalNode(t) ==
    [Role                 |-> IF "role" \in t.keys THEN t.v.Role ELSE "",
     Image                |-> IF "image" \in t.keys THEN t.v.Image ELSE <<>>,
     ExtraPortMappings    |-> IF "extraPortMappings" \in t.keys
                              THEN t.v.ExtraPortMappings ELSE <<>>,
     ExtraMounts          |-> IF "extraMounts" \in t.keys THEN t.v.ExtraMounts ELSE <<>>,
     Labels               |-> IF "labels" \in t.keys THEN t.v.Labels ELSE {},
     KubeadmConfigPatches |-> IF "kubeadmConfigPatches" \in t.keys
                              THEN t.v.KubeadmConfigPatches ELSE <<>>]

\* yaml.Unmarshal into a NetworkConfig
UnmarshalNetwork(t) ==
    [IPFamily          |-> IF "ipFamily" \in t.keys THEN t.v.IPFamily ELSE "",
     APIServerAddress  |-> IF "apiServerAddress" \in t.keys THEN t.v.APIServerAddress ELSE "",
     APIServerPort     |-> IF "apiServerPort" \in t.keys THEN t.v.APIServerPort ELSE 0,
     PodSubnet         |-> IF "podSubnet" \in t.keys THEN t.v.PodSubnet ELSE "",
     ServiceSubnet     |-> IF "serviceSubnet" \in t.keys THEN t.v.ServiceSubnet ELSE "",
     DisableDefaultCNI |-> IF "disableDefaultCNI" \in t.keys THEN t.v.DisableDefaultCNI
                           ELSE FALSE,
     KubeProxyMode     |-> IF "kubeProxyMode" \in t.keys THEN t.v.KubeProxyMode ELSE ""]

\* yaml.Unmarshal into a ClusterConfig: [err, cfg]
YamlUnmarshal(text) ==
    IF text.syntax # "mapping"
    THEN [err |-> TRUE, cfg |-> ZeroClusterConfig]
    ELSE [err |-> FALSE,
          cfg |-> [Kind       |-> IF "kind" \in text.keys THEN text.v.kind ELSE "",
                   APIVersion |-> IF "apiVersion" \in text.keys THEN text.v.apiVersion ELSE "",
                   Name       |-> IF "name" \in text.keys THEN text.v.name ELSE "",
                   Nodes      |-> IF "nodes" \in text.keys
                                  THEN [i \in DOMAIN text.v.nodes |->
                                            UnmarshalNode(text.v.nodes[i])]
                                  ELSE <<>>,
                   Networking |-> IF "networking" \in text.keys
                                  THEN <<UnmarshalNetwork(text.v.networking)>> ELSE <<>>,
                   FeatureGates |-> IF "featureGates" \in text.keys
                                    THEN text.v.featureGates ELSE {},
                   ContainerdConfigPatches |->
                       IF "containerdConfigPatches" \in text.keys
                       THEN text.v.containerdConfigPatches ELSE <<>>]]

\* the empty text: a document with no key
EmptyText == [YamlMarshal(ZeroClusterConfig) EXCEPT !.keys = {}]

\* kindNodeImage
kindNodeImage(version) ==
    <<"kindest/node:">> \o (IF ~HasPrefix(version, "v") THEN <<"v">> \o version ELSE version)

\* mutant of ControlPlaneCount: a non-positive count is kept
ControlPlaneCount_Raw(n) == n

\* GenerateConfig, lines 179-181: the control-plane count in use
ControlPlaneCount(n) == IF n <= 0 THEN 1 ELSE n

\* mutant of ControlPlaneNode: every control-plane node gets the port mappings
ControlPlaneNode_AllPorts(o, i) ==
    [ZeroNodeConfig EXCEPT
        !.Role = "control-plane",
        !.Image = IF o.KubernetesVersion # <<>> THEN kindNodeImage(o.KubernetesVersion)
                  ELSE <<>>,
        !.ExtraPortMappings = IF Len(o.PortMappings) > 0 THEN o.PortMappings ELSE <<>>,
        !.ExtraMounts = IF Len(o.ExtraMounts) > 0 THEN o.ExtraMounts ELSE <<>>,
        !.Labels = IF Cardinality(o.Labels) > 0 THEN o.Labels ELSE {}]

\* GenerateConfig, lines 190-208: the i-th control-plane node, i counted from 0
ControlPlaneNode(o, i) ==
    [ZeroNodeConfig EXCEPT
        !.Role = "control-plane",
        !.Image = IF o.KubernetesVersion # <<>> THEN kindNodeImage(o.KubernetesVersion)
                  ELSE <<>>,
        !.ExtraPortMappings = IF i = 0 /\ Len(o.PortMappings) > 0 THEN o.PortMappings
                              ELSE <<>>,
        !.ExtraMounts = IF Len(o.ExtraMounts) > 0 THEN o.ExtraMounts ELSE <<>>,
        !.Labels = IF Cardinality(o.Labels) > 0 THEN o.Labels ELSE {}]

\* GenerateConfig, lines 211-225: a worker node
WorkerNode(o) ==
    [ZeroNodeConfig EXCEPT
        !.Role = "worker",
        !.Image = IF o.KubernetesVersion # <<>> THEN kindNodeImage(o.KubernetesVersion)
                  ELSE <<>>,
        !.ExtraMounts = IF Len(o.ExtraMounts) > 0 THEN o.ExtraMounts ELSE <<>>,
        !.Labels = IF Cardinality(o.Labels) > 0 THEN o.Labels ELSE {}]

\* GenerateConfig, lines 228-238: the networking block
NetworkingOf(o) ==
    IF o.PodSubnet # "" \/ o.ServiceSubnet # "" \/ o.DisableDefaultCNI
       \/ o.IPFamily # "" \/ o.KubeProxyMode # "" \/ o.APIServerPort # 0
    THEN << [ZeroNetworkConfig EXCEPT
                !.PodSubnet = o.PodSubnet, !.ServiceSubnet = o.ServiceSubnet,
                !.DisableDefaultCNI = o.DisableDefaultCNI, !.IPFamily = o.IPFamily,
                !.KubeProxyMode = o.KubeProxyMode, !.APIServerPort = o.APIServerPort] >>
    ELSE <<>>

\* GenerateConfig: [err, text]
GenerateConfig(o) ==
    IF o.ClusterName = ""
    THEN [err |-> "cluster name is required", text |-> EmptyText]
    ELSE LET c == ControlPlaneCount(o.NumControlPlanes)
             cfg == [ZeroClusterConfig EXCEPT
                        !.Kind = "Cluster",
                        !.APIVersion = "kind.x-k8s.io/v1alpha4",
                        !.Name = o.ClusterName,
                        !.Nodes = [i \in 1..c |-> ControlPlaneNode(o, i - 1)]
                                  \o [i \in 1..o.NumWorkers |-> WorkerNode(o)],
                        !.Networking = NetworkingOf(o),
                        !.ContainerdConfigPatches =
                            IF Len(o.ContainerdPatches) > 0 THEN o.ContainerdPatches
                            ELSE <<>>]
         IN  [err |-> "", text |-> YamlMarshal(cfg)]

\* ValidateConfig, lines 275-283: the loop over cfg.Nodes from index i on;
\* [err, hasControlPlane]
RECURSIVE CheckRoles(_, _, _)
CheckRoles(ns, i, hasControlPlane) ==
    IF i > Len(ns) THEN [err |-> "", hasControlPlane |-> hasControlPlane]
    ELSE IF ns[i].Role # "control-plane" /\ ns[i].Role # "worker"
         THEN [err |-> "invalid node role", hasControlPlane |-> hasControlPlane]
         ELSE CheckRoles(ns, i + 1, hasControlPlane \/ ns[i].Role = "control-plane")

\* mutant of ValidateConfig: a document without nodes is rejected too
ValidateConfig_NeedsNodes(text) ==
    LET parsed == YamlUnmarshal(text)
        cfg    == parsed.cfg
        roles  == CheckRoles(cfg.Nodes, 1, FALSE)
    IN  IF parsed.err THEN "invalid YAML"
        ELSE IF cfg.Kind # "Cluster" THEN "expected kind 'Cluster'"
        ELSE IF cfg.APIVersion # "kind.x-k8s.io/v1alpha4"
             THEN "expected apiVersion 'kind.x-k8s.io/v1alpha4'"
        ELSE IF roles.err # "" THEN roles.err
        ELSE IF ~roles.hasControlPlane
             THEN "at least one control-plane node is required"
        ELSE ""

\* ValidateConfig: the error, "" for nil
ValidateConfig(text) ==
    LET parsed == YamlUnmarshal(text)
        cfg    == parsed.cfg
        roles  == CheckRoles(cfg.Nodes, 1, FALSE)
    IN  IF parsed.err THEN "invalid YAML"
        ELSE IF cfg.Kind # "Cluster" THEN "expected kind 'Cluster'"
        ELSE IF cfg.APIVersion # "kind.x-k8s.io/v1alpha4"
             THEN "expected apiVersion 'kind.x-k8s.io/v1alpha4'"
        ELSE IF roles.err # "" THEN roles.err
        ELSE IF Len(cfg.Nodes) > 0 /\ ~roles.hasControlPlane
             THEN "at least one control-plane node is required"
        ELSE ""

\* ------------------------------------------------------------------ manager.go

\* the lines kept by the loop of GetClusterNodes / ListClusters: trimmed, non-empty
RECURSIVE NonEmptyLines(_)
NonEmptyLines(ls) ==
    IF ls = <<>> THEN <<>>
    ELSE (IF TrimSpace(Head(ls)) # <<>> THEN <<TrimSpace(Head(ls))>> ELSE <<>>)
         \o NonEmptyLines(Tail(ls))

\* GetClusterNodes after a successful "kind get nodes": out is the CLI output
ParseNodes(out) ==
    LET output == TrimSpaceText(out)
    IN  IF output = <<>> THEN <<>> ELSE NonEmptyLines(output)

\* the outcomes of one runner.Run call on a node: success with no output, or a
\* non-zero exit with captured output
ExecOutcomes(failed) ==
    {[ok |-> TRUE, out |-> <<>>]}
    \cup (IF failed < MaxFail THEN {[ok |-> FALSE, out |-> <<"stderr">>]} ELSE {})

\* ExecOnNode, GetClusterStatus: runtimeBin
RuntimeBin(rt) == IF rt = "podman" THEN "podman" ELSE "docker"

\* ExecOnNode: the invocation handed to the runner
ExecCall(node, cmd) ==
    [bin |-> RuntimeBin(mgrRuntime), sub |-> "exec", node |-> node, cmd |-> cmd]

\* ExecOnNode: [out, err] from the runner's outcome; err is <<>> (nil) or the
\* wrapped error, which carries the captured output
ExecOnNode(node, cmd, outcome) ==
    IF outcome.ok
    THEN [out |-> outcome.out, err |-> <<>>]
    ELSE [out |-> outcome.out,
          err |-> << [msg |-> "exec on node failed", node |-> node,
                      output |-> outcome.out] >>]

\* ------------------------------------------------------------------ mirrors.go: ApplyMirrorConfig

RestartCommand == [argv |-> <<"systemctl", "restart", "containerd">>,
                   path |-> <<>>, body |-> <<>>]

\* one result line of the provisioning loop
CommandLine(node, cmd, r) ==
    IF r.err # <<>>
    THEN [status |-> "FAILED", node |-> node, desc |-> cmd.Description, detail |-> r.err]
    ELSE [status |-> "OK", node |-> node, desc |-> cmd.Description,
          detail |-> IF TrimSpace(r.out) # <<>> THEN <<TrimSpace(r.out)>> ELSE <<>>]

\* one result line of the restart loop
RestartLine(node, r) ==
    IF r.err # <<>>
    THEN [status |-> "FAILED", node |-> node,
          desc |-> [text |-> "restart containerd", registry |-> "", mirror |-> <<>>],
          detail |-> r.err]
    ELSE [status |-> "OK", node |-> node,
          desc |-> [text |-> "restarted containerd", registry |-> "", mirror |-> <<>>],
          detail |-> IF TrimSpace(r.out) # <<>> THEN <<TrimSpace(r.out)>> ELSE <<>>]

\* ------------------------------------------------------------------ inputs

RECURSIVE SeqsUpTo(_, _)
SeqsUpTo(S, n) ==
    IF n = 0 THEN {<<>>}
    ELSE LET shorter == SeqsUpTo(S, n - 1)
         IN  shorter \cup {Append(q, x) : q \in {r \in shorter : Len(r) = n - 1}, x \in S}

OverrideValues ==
    { [Original |-> "docker.io", Mirror |-> <<"http://", "proxy:5000">>],
      [Original |-> "ghcr.io",   Mirror |-> <<"https://", "proxy:5001">>],
      [Original |-> "docker.io", Mirror |-> <<"proxy:5002">>] }

NodeNames == { <<"demo-", "control-plane">>, <<"demo-", "worker">> }

\* the lines "kind get nodes" can print: node names, possibly padded, and blank lines
OutputLines == NodeNames \cup { <<" ">>, <<" ", "demo-", "worker", " ">> }

\* kind prints every node container once
NoDuplicateNode(out) ==
    \A i, j \in DOMAIN out :
        (i # j /\ TrimSpace(out[i]) # <<>>) => TrimSpace(out[i]) # TrimSpace(out[j])

NodeOutputs == {out \in SeqsUpTo(OutputLines, MaxLines) : NoDuplicateNode(out)}

\* the node selectors of a NodeCommand: "all" is what GenerateMirrorConfig emits;
\* the others reach ApplyMirrorConfig only through a hand-built MirrorConfig
Selectors == {"all", "control-plane", "worker", "gpu"}

\* a MirrorConfig whose commands carry the given nodeSelector
WithSelector(cfg, sel) ==
    [cfg EXCEPT !.PostCreateCommands =
        [i \in DOMAIN cfg.PostCreateCommands |->
            [cfg.PostCreateCommands[i] EXCEPT !.NodeSelector =
                IF sel = "all" THEN @ ELSE sel]]]

\* ------------------------------------------------------------------ configure_registry_mirrors

\* no configure_registry_mirrors call is running
ApplyIdle ==
    /\ overrides = <<>> /\ nodeSelector = "all" /\ mirrorCfg = <<>> /\ genErr = ""
    /\ nodesErr = "" /\ nodes = <<>> /\ targetNodes = <<>> /\ cmdIdx = 0 /\ nodeIdx = 0
    /\ results = <<>> /\ applyRet = <<>> /\ execLog = <<>> /\ failCount = 0
    /\ includeCredentials = FALSE /\ mirrorCredInfo = <<>>
    /\ apc = "idle"

\* no FindCredentials call is running
CredIdle ==
    /\ credRuntime = "unknown" /\ goos = "linux"
    /\ env = [REGISTRY_AUTH_FILE |-> <<>>, XDG_RUNTIME_DIR |-> <<>>, DOCKER_CONFIG |-> <<>>]
    /\ fs = <<>> /\ credIdx = 0 /\ examined = <<>> /\ credRet = <<>> /\ cpc = "idle"

\* no GenerateConfig / ValidateConfig call is running
ConfigIdle ==
    /\ opts = ZeroConfigOptions /\ cfgSource = "caller" /\ configYAML = EmptyText
    /\ cfgErr = "" /\ valErr = "" /\ kpc = "idle" /\ mountCredentials = FALSE

\* the calls of CreateCluster a run follows
Calls == {"call-1", "call-2"}

NoReturn == [out |-> "", err |-> "", errOutput |-> ""]

CreateIdle ==
    /\ mgrRuntime = "docker"
    /\ createName = [c \in Calls |-> ""]
    /\ createConfig = [c \in Calls |-> EmptyText]
    /\ tmpFile = [c \in Calls |-> ""]
    /\ createRet = [c \in Calls |-> NoReturn]
    /\ createPc = [c \in Calls |-> "idle"]
    /\ tmpDir = {}
    /\ runnerCalls = << >>

\* no other operation of the Manager is running
ManagerIdle ==
    /\ mgrOp = "none" /\ mgrName = "" /\ mgrInternal = FALSE /\ listing = <<>>
    /\ lineIdx = 0 /\ statusNodes = <<>> /\ mgrRet = <<>> /\ mgrCalls = <<>> /\ mpc = "idle"

\* "docker info" has failed: ok is the exit of the command, valid whether
\* json.Unmarshal accepts the output, the rest the fields of dockerInfo
FailedDockerInfo == [ok |-> FALSE, valid |-> FALSE, ServerVersion |-> "",
                     OperatingSystem |-> << >>, Name |-> << >>]

\* "podman info" has failed; the fields are those of podmanInfo
FailedPodmanInfo == [ok |-> FALSE, valid |-> FALSE, Version |-> "", SocketPath |-> << >>]

\* Detect is not running
DetectIdle ==
    /\ hostOS = "linux" /\ onPath = {} /\ dockerInfoOut = FailedDockerInfo
    /\ podmanInfoOut = FailedPodmanInfo /\ dockerHost = << >> /\ xdgRuntimeDir = << >>
    /\ sockets = {} /\ procVersion = << >> /\ detCalls = << >> /\ detRet = << >>
    /\ dpc = "idle" /\ networkAdvice = << >>

ApplyInit ==
    /\ overrides \in SeqsUpTo(OverrideValues, MaxOverrides)
    /\ nodeSelector \in Selectors
    /\ mirrorCfg = <<>>
    /\ genErr = ""
    /\ nodesErr = ""
    /\ nodes = <<>>
    /\ targetNodes = <<>>
    /\ cmdIdx = 0
    /\ nodeIdx = 0
    /\ results = <<>>
    /\ applyRet = <<>>
    /\ execLog = <<>>
    /\ failCount = 0
    /\ apc = "generate"
    /\ includeCredentials = FALSE
    /\ mirrorCredInfo = <<>>
    /\ CredIdle
    /\ ConfigIdle
    /\ CreateIdle
    /\ ManagerIdle
    /\ DetectIdle

\* handleConfigureRegistryMirrors, lines 76-88: the empty list is refused; with
\* include_credentials the result of FindCredentials (nil when it failed) is handed
\* to GenerateMirrorConfig
HandleGenerate ==
    /\ apc = "generate"
    /\ (includeCredentials /\ overrides # <<>>) => cpc = "done"
    /\ mirrorCredInfo' = IF includeCredentials /\ overrides # <<>> THEN credRet[1].info ELSE <<>>
    /\ LET g == GenerateMirrorConfig(overrides, mirrorCredInfo')
       IN  /\ genErr' = g.err
           /\ mirrorCfg' = IF g.err # "" THEN <<>> ELSE <<WithSelector(g.cfg[1], nodeSelector)>>
           /\ apc' = IF g.err # "" THEN "done" ELSE "getnodes"
    /\ UNCHANGED <<overrides, nodeSelector, includeCredentials, nodesErr, nodes, targetNodes,
                   cmdIdx, nodeIdx, results, applyRet, execLog, failCount>>
    /\ UNCHANGED notApply

\* ApplyMirrorConfig: mgr.GetClusterNodes fails
ApplyGetNodesFail ==
    /\ apc = "getnodes"
    /\ nodesErr' = "kind get nodes failed"
    /\ applyRet' = << [results |-> <<>>, err |-> "getting cluster nodes"] >>
    /\ failCount' = failCount + 1
    /\ apc' = "done"
    /\ UNCHANGED <<overrides, nodeSelector, includeCredentials, mirrorCredInfo, mirrorCfg, genErr, nodes, targetNodes, cmdIdx, nodeIdx,
                   results, execLog>>
    /\ UNCHANGED notApply

\* ApplyMirrorConfig: mgr.GetClusterNodes succeeds
ApplyGetNodesOK ==
    /\ apc = "getnodes"
    /\ \E out \in NodeOutputs : nodes' = ParseNodes(out)
    /\ cmdIdx' = 1
    /\ apc' = "cmdloop"
    /\ UNCHANGED <<overrides, nodeSelector, includeCredentials, mirrorCredInfo, mirrorCfg, genErr, nodesErr, targetNodes, nodeIdx, results, applyRet,
                   execLog, failCount>>
    /\ UNCHANGED notApply

\* ApplyMirrorConfig: head of "for _, cmd := range mirrorCfg.PostCreateCommands"
ApplyCmdLoop ==
    /\ apc = "cmdloop"
    /\ LET cmds == mirrorCfg[1].PostCreateCommands
       IN  IF cmdIdx > Len(cmds)
           THEN /\ apc' = "restartloop"
                /\ targetNodes' = <<>>
           ELSE /\ apc' = "nodeloop"
                /\ targetNodes' = filterNodes(nodes, cmds[cmdIdx].NodeSelector)
    /\ nodeIdx' = 1
    /\ UNCHANGED <<overrides, nodeSelector, includeCredentials, mirrorCredInfo, mirrorCfg, genErr, nodesErr, nodes, cmdIdx, results, applyRet,
                   execLog, failCount>>
    /\ UNCHANGED notApply

\* ApplyMirrorConfig: "for _, node := range targetNodes" has run out
ApplyNodeLoopEnd ==
    /\ apc = "nodeloop"
    /\ nodeIdx > Len(targetNodes)
    /\ cmdIdx' = cmdIdx + 1
    /\ apc' = "cmdloop"
    /\ UNCHANGED <<overrides, nodeSelector, includeCredentials, mirrorCredInfo, mirrorCfg, genErr, nodesErr, nodes, targetNodes, nodeIdx, results,
                   applyRet, execLog, failCount>>
    /\ UNCHANGED notApply

\* mutant of ApplyExecCommand: a failed command ends the call with its error
ApplyExecCommand_Abort ==
    /\ apc = "nodeloop"
    /\ nodeIdx <= Len(targetNodes)
    /\ \E outcome \in ExecOutcomes(failCount) :
        LET cmd  == mirrorCfg[1].PostCreateCommands[cmdIdx]
            node == targetNodes[nodeIdx]
            r    == ExecOnNode(node, cmd.Command, outcome)
        IN  /\ execLog' = Append(execLog, [call |-> ExecCall(node, cmd.Command),
                                           ok |-> outcome.ok])
            /\ results' = Append(results, CommandLine(node, cmd, r))
            /\ failCount' = IF outcome.ok THEN failCount ELSE failCount + 1
            /\ applyRet' = IF outcome.ok THEN applyRet
                           ELSE << [results |-> <<>>, err |-> "exec on node failed"] >>
            /\ apc' = IF outcome.ok THEN apc ELSE "done"
    /\ nodeIdx' = nodeIdx + 1
    /\ UNCHANGED <<overrides, nodeSelector, includeCredentials, mirrorCredInfo, mirrorCfg, genErr, nodesErr, nodes, targetNodes,
                   cmdIdx>>
    /\ UNCHANGED notApply

\* ApplyMirrorConfig: one mgr.ExecOnNode(ctx, node, cmd.Command) and its result line
ApplyExecCommand ==
    /\ apc = "nodeloop"
    /\ nodeIdx <= Len(targetNodes)
    /\ \E outcome \in ExecOutcomes(failCount) :
        LET cmd  == mirrorCfg[1].PostCreateCommands[cmdIdx]
            node == targetNodes[nodeIdx]
            r    == ExecOnNode(node, cmd.Command, outcome)
        IN  /\ execLog' = Append(execLog, [call |-> ExecCall(node, cmd.Command),
                                           ok |-> outcome.ok])
            /\ results' = Append(results, CommandLine(node, cmd, r))
            /\ failCount' = IF outcome.ok THEN failCount ELSE failCount + 1
    /\ nodeIdx' = nodeIdx + 1
    /\ UNCHANGED <<overrides, nodeSelector, includeCredentials, mirrorCredInfo, mirrorCfg, genErr, nodesErr, nodes, targetNodes, cmdIdx, applyRet, apc>>
    /\ UNCHANGED notApply

\* mutant of ApplyExecRestart: the restart loop runs over the nodes the last command
\* selected instead of over all nodes
ApplyExecRestart_Selected ==
    /\ apc = "restartloop"
    /\ nodeIdx <= Len(nodes)
    /\ LET node == nodes[nodeIdx]
           last == mirrorCfg[1].PostCreateCommands[Len(mirrorCfg[1].PostCreateCommands)]
       IN  IF \E i \in DOMAIN filterNodes(nodes, last.NodeSelector) :
                   filterNodes(nodes, last.NodeSelector)[i] = node
           THEN \E outcome \in ExecOutcomes(failCount) :
                   LET r == ExecOnNode(node, RestartCommand, outcome)
                   IN  /\ execLog' = Append(execLog, [call |-> ExecCall(node, RestartCommand),
                                                      ok |-> outcome.ok])
                       /\ results' = Append(results, RestartLine(node, r))
                       /\ failCount' = IF outcome.ok THEN failCount ELSE failCount + 1
           ELSE UNCHANGED <<execLog, results, failCount>>
    /\ nodeIdx' = nodeIdx + 1
    /\ UNCHANGED <<overrides, nodeSelector, includeCredentials, mirrorCredInfo, mirrorCfg, genErr, nodesErr, nodes, targetNodes,
                   cmdIdx, applyRet, apc>>
    /\ UNCHANGED notApply

\* ApplyMirrorConfig: one restart of containerd and its result line
ApplyExecRestart ==
    /\ apc = "restartloop"
    /\ nodeIdx <= Len(nodes)
    /\ \E outcome \in ExecOutcomes(failCount) :
        LET node == nodes[nodeIdx]
            r    == ExecOnNode(node, RestartCommand, outcome)
        IN  /\ execLog' = Append(execLog, [call |-> ExecCall(node, RestartCommand),
                                           ok |-> outcome.ok])
            /\ results' = Append(results, RestartLine(node, r))
            /\ failCount' = IF outcome.ok THEN failCount ELSE failCount + 1
    /\ nodeIdx' = nodeIdx + 1
    /\ UNCHANGED <<overrides, nodeSelector, includeCredentials, mirrorCredInfo, mirrorCfg, genErr, nodesErr, nodes, targetNodes, cmdIdx, applyRet, apc>>
    /\ UNCHANGED notApply

\* mutant of ApplyReturn: a cluster without nodes is reported as an error
ApplyReturn_NoNodesIsError ==
    /\ apc = "restartloop"
    /\ nodeIdx > Len(nodes)
    /\ applyRet' = IF nodes = <<>>
                   THEN << [results |-> <<>>, err |-> "cluster not found or has no nodes"] >>
                   ELSE << [results |-> results, err |-> ""] >>
    /\ apc' = "done"
    /\ UNCHANGED <<overrides, nodeSelector, includeCredentials, mirrorCredInfo, mirrorCfg, genErr,
                   nodesErr, nodes, targetNodes, cmdIdx, nodeIdx, results, execLog, failCount>>
    /\ UNCHANGED notApply

\* ApplyMirrorConfig: return results, nil
ApplyReturn ==
    /\ apc = "restartloop"
    /\ nodeIdx > Len(nodes)
    /\ applyRet' = << [results |-> results, err |-> ""] >>
    /\ apc' = "done"
    /\ UNCHANGED <<overrides, nodeSelector, includeCredentials, mirrorCredInfo, mirrorCfg, genErr, nodesErr, nodes, targetNodes, cmdIdx, nodeIdx,
                   results, execLog, failCount>>
    /\ UNCHANGED notApply

ApplyNext ==
    \/ HandleGenerate
    \/ ApplyGetNodesFail
    \/ ApplyGetNodesOK
    \/ ApplyCmdLoop
    \/ ApplyNodeLoopEnd
    \/ ApplyExecCommand
    \/ ApplyExecRestart
    \/ ApplyReturn

SpecApply == ApplyInit /\ [][ApplyNext]_vars

\* ------------------------------------------------------------------ claims: ApplyMirrorConfig

\* ApplyMirrorConfig has returned without error
ApplyReturnedOK == applyRet # <<>> /\ applyRet[1].err = ""

IsRestartLine(l) == l.desc.text \in {"restart containerd", "restarted containerd"}

IsRestartCall(e) == e.call.cmd = RestartCommand

\* the number of entries of a sequence that satisfy a test
CountIf(q, Test(_)) == Cardinality({i \in DOMAIN q : Test(q[i])})

\* the configuration is the one GenerateMirrorConfig emits (the tool's only path)
Generated == nodeSelector = "all"

\* what a nodeSelector means (NodeCommand, mirrors.go)
Matches(node, sel) ==
    \/ sel = "all"
    \/ sel = "control-plane" /\ Contains(node, "control-plane")
    \/ sel = "worker" /\ ~Contains(node, "control-plane")

\* the number of (command, node) pairs whose node matches the command's nodeSelector
MatchingPairs ==
    Cardinality({p \in (DOMAIN mirrorCfg[1].PostCreateCommands) \X (DOMAIN nodes) :
                    Matches(nodes[p[2]], mirrorCfg[1].PostCreateCommands[p[1]].NodeSelector)})

\* C1 as stated: a generated configuration of k overrides on n nodes yields exactly
\* 2*k provisioning lines followed by exactly n restart lines.
C1_TwoLinesPerOverride ==
    (ApplyReturnedOK /\ Generated) =>
        LET rs == applyRet[1].results
            k  == Len(overrides)
            n  == Len(nodes)
        IN  /\ Len(rs) = 2 * k + n
            /\ \A i \in DOMAIN rs : IsRestartLine(rs[i]) <=> i > 2 * k

\* C1 amended: a generated configuration of k overrides on n nodes yields exactly
\* 2*k*n provisioning lines (one per command and node) followed by exactly n restart
\* lines, whatever subset of the executed commands fails.
C1_LinesPerOverrideAndNode ==
    (ApplyReturnedOK /\ Generated) =>
        LET rs == applyRet[1].results
            k  == Len(overrides)
            n  == Len(nodes)
        IN  /\ Len(rs) = 2 * k * n + n
            /\ \A i \in DOMAIN rs : IsRestartLine(rs[i]) <=> i > 2 * k * n

\* C1 witness: two overrides on two nodes, some command failed, the call returned
C1_Witness ==
    /\ ApplyReturnedOK /\ Generated
    /\ Len(overrides) = 2 /\ Len(nodes) = 2
    /\ failCount >= 2
    /\ Len(applyRet[1].results) = 10

\* the calls ApplyMirrorConfig owes a cluster: every command on every node matching
\* its nodeSelector, command by command, then the restart on every node
RECURSIVE OwedCommandCalls(_, _)
OwedCommandCalls(cmds, ns) ==
    IF cmds = <<>> THEN <<>>
    ELSE LET hit == SelectSeq(ns, LAMBDA n : Matches(n, Head(cmds).NodeSelector))
         IN  [i \in DOMAIN hit |-> ExecCall(hit[i], Head(cmds).Command)]
             \o OwedCommandCalls(Tail(cmds), ns)

OwedCalls ==
    OwedCommandCalls(mirrorCfg[1].PostCreateCommands, nodes)
    \o [i \in DOMAIN nodes |-> ExecCall(nodes[i], RestartCommand)]

\* C3: ApplyMirrorConfig never aborts early. Once node enumeration succeeded, every
\* command is attempted on every node matching its nodeSelector and every node's restart
\* is attempted, each outcome is one OK or FAILED line, and the full list is returned
\* with no error whichever executions fail; the only error return is a failed node
\* enumeration, and then nothing was executed on any node.
C3_NeverAbortsEarly ==
    /\ (apc = "done" /\ genErr = "" /\ nodesErr = "") =>
          /\ ApplyReturnedOK
          /\ applyRet[1].results = results
          /\ [i \in DOMAIN execLog |-> execLog[i].call] = OwedCalls
          /\ Len(results) = Len(execLog)
          /\ \A i \in DOMAIN results :
                /\ results[i].status = (IF execLog[i].ok THEN "OK" ELSE "FAILED")
                /\ results[i].node = execLog[i].call.node
    /\ (applyRet # <<>> /\ applyRet[1].err # "") =>
          /\ nodesErr # ""
          /\ execLog = <<>>
          /\ applyRet[1].results = <<>>
    /\ (nodesErr # "") => (apc = "done" /\ applyRet # <<>> /\ applyRet[1].err # "")

\* C3 witness: the call returned its full list although several executions failed,
\* among them a provisioning command and a restart
C3_Witness ==
    /\ ApplyReturnedOK
    /\ Len(overrides) = 2 /\ Len(nodes) = 2
    /\ \E i, j \in DOMAIN execLog :
         /\ ~execLog[i].ok /\ ~IsRestartCall(execLog[i])
         /\ ~execLog[j].ok /\ IsRestartCall(execLog[j])
    /\ Len(results) = Len(OwedCalls)

\* C4: the daemon restart is executed exactly once on every node of the cluster
\* (selected by a command's nodeSelector or not), only after the last provisioning
\* command has been executed on the last node, also when provisioning commands failed.
C4_RestartEveryNodeOnceAtEnd ==
    /\ \A i, j \in DOMAIN execLog :
          (IsRestartCall(execLog[i]) /\ ~IsRestartCall(execLog[j])) => j < i
    /\ (\E i \in DOMAIN execLog : IsRestartCall(execLog[i])) =>
          CountIf(execLog, LAMBDA e : ~IsRestartCall(e)) = MatchingPairs
    /\ (apc = "done" /\ genErr = "" /\ nodesErr = "") =>
          \A n \in DOMAIN nodes :
              CountIf(execLog, LAMBDA e : IsRestartCall(e) /\ e.call.node = nodes[n]) = 1
    /\ \A i \in DOMAIN execLog :
          IsRestartCall(execLog[i]) => \E n \in DOMAIN nodes : nodes[n] = execLog[i].call.node

\* C4 witness: every provisioning command failed, a node that no command selected was
\* restarted, and the call returned
C4_Witness ==
    /\ ApplyReturnedOK
    /\ nodeSelector = "control-plane"
    /\ Len(nodes) = 2
    /\ CountIf(execLog, LAMBDA e : ~IsRestartCall(e)) = 2
    /\ \A i \in DOMAIN execLog : ~IsRestartCall(execLog[i]) => ~execLog[i].ok
    /\ \E i \in DOMAIN execLog :
          IsRestartCall(execLog[i]) /\ ~Contains(execLog[i].call.node, "control-plane")

\* ------------------------------------------------------------------ credentials.go

\* os.UserHomeDir()
HomeDir == <<"/home/u/">>

\* expandPath: a leading "~/" becomes the home directory
expandPath(path) == IF HasPrefix(path, "~/") THEN HomeDir \o Tail(path) ELSE path

DockerDefault == [path |-> <<"~/", ".docker", "config.json">>, source |-> "docker"]
PodmanDefault == [path |-> <<"~/", ".config", "containers", "auth.json">>, source |-> "podman"]

\* mutant of candidatePaths: for podman the docker default path is tried first
candidatePaths_FallbackFirst(rt, os, e) ==
    CASE rt = "podman" ->
            <<DockerDefault>>
            \o (IF e.REGISTRY_AUTH_FILE # <<>>
                THEN << [path |-> e.REGISTRY_AUTH_FILE, source |-> "podman"] >> ELSE <<>>)
            \o (CASE os = "linux" ->
                        (IF e.XDG_RUNTIME_DIR # <<>>
                         THEN << [path |-> e.XDG_RUNTIME_DIR \o <<"containers", "auth.json">>,
                                  source |-> "podman"] >>
                         ELSE <<>>)
                        \o <<PodmanDefault>>
                  [] os \in {"darwin", "windows"} -> <<PodmanDefault>>
                  [] OTHER -> <<>>)
      [] rt = "docker" ->
            (IF e.DOCKER_CONFIG # <<>>
             THEN << [path |-> e.DOCKER_CONFIG \o <<"config.json">>, source |-> "docker"] >>
             ELSE <<>>)
            \o <<DockerDefault>>
      [] OTHER -> <<DockerDefault, PodmanDefault>>

\* candidatePaths
candidatePaths(rt, os, e) ==
    CASE rt = "podman" ->
            (IF e.REGISTRY_AUTH_FILE # <<>>
             THEN << [path |-> e.REGISTRY_AUTH_FILE, source |-> "podman"] >> ELSE <<>>)
            \o (CASE os = "linux" ->
                        (IF e.XDG_RUNTIME_DIR # <<>>
                         THEN << [path |-> e.XDG_RUNTIME_DIR \o <<"containers", "auth.json">>,
                                  source |-> "podman"] >>
                         ELSE <<>>)
                        \o <<PodmanDefault>>
                  [] os \in {"darwin", "windows"} -> <<PodmanDefault>>
                  [] OTHER -> <<>>)
            \o <<DockerDefault>>
      [] rt = "docker" ->
            (IF e.DOCKER_CONFIG # <<>>
             THEN << [path |-> e.DOCKER_CONFIG \o <<"config.json">>, source |-> "docker"] >>
             ELSE <<>>)
            \o <<DockerDefault>>
      [] OTHER -> <<DockerDefault, PodmanDefault>>

\* pathStrings
pathStrings(paths) == [i \in DOMAIN paths |-> expandPath(paths[i].path)]

\* json.Unmarshal(data, &cfg): [err, cfg]
Unmarshal(data) ==
    IF data.syntax = "object"
    THEN [err |-> FALSE,
          cfg |-> [Auths |-> data.auths, CredsStore |-> data.credsStore,
                   CredHelpers |-> data.credHelpers]]
    ELSE [err |-> TRUE, cfg |-> [Auths |-> {}, CredsStore |-> "", CredHelpers |-> {}]]

\* the orders in which "for reg := range cfg.Auths" can visit the map
KeyOrders(keys) ==
    {q \in SeqsUpTo(keys, Cardinality(keys)) :
        Len(q) = Cardinality(keys) /\ \A i, j \in DOMAIN q : i # j => q[i] # q[j]}

\* mutant of CredentialInfo: only the credential store decides InlineAuth
CredentialInfo_StoreOnly(expanded, source, cfg, registries) ==
    LET inline == cfg.CredsStore = ""
    IN  [FilePath    |-> expanded,
         Registries  |-> registries,
         CredStore   |-> cfg.CredsStore,
         CredHelpers |-> cfg.CredHelpers,
         InlineAuth  |-> inline,
         MountPath   |-> "/var/lib/kubelet/config.json",
         Source      |-> source,
         Notes       |-> (IF cfg.CredsStore # ""
                          THEN <<"Credentials are managed by credential helper">>
                          ELSE <<>>)
                         \o (IF ~inline /\ Len(registries) = 0
                             THEN <<"No inline auth entries found in the config file.">>
                             ELSE <<>>)]

\* FindCredentials, lines 57-86: the CredentialInfo built from a parsed file
CredentialInfo(expanded, source, cfg, registries) ==
    LET inline == cfg.CredsStore = "" /\ Cardinality(cfg.CredHelpers) = 0
    IN  [FilePath    |-> expanded,
         Registries  |-> registries,
         CredStore   |-> cfg.CredsStore,
         CredHelpers |-> cfg.CredHelpers,
         InlineAuth  |-> inline,
         MountPath   |-> "/var/lib/kubelet/config.json",
         Source      |-> source,
         Notes       |-> (IF cfg.CredsStore # ""
                          THEN <<"Credentials are managed by credential helper">>
                          ELSE <<>>)
                         \o (IF ~inline /\ Len(registries) = 0
                             THEN <<"No inline auth entries found in the config file.">>
                             ELSE <<>>)]

\* ------------------------------------------------------------------ inputs: credentials

Absent == [kind |-> "absent", syntax |-> "", auths |-> {}, credsStore |-> "",
           credHelpers |-> {}]

\* a path os.Stat accepts and os.ReadFile rejects (a directory, no read permission)
Unreadable == [Absent EXCEPT !.kind = "unreadable"]

Garbage == [Absent EXCEPT !.kind = "file", !.syntax = "garbage"]

\* well-formed JSON that is no object
JsonArray == [Absent EXCEPT !.kind = "file", !.syntax = "array"]

InlineFile == [Absent EXCEPT !.kind = "file", !.syntax = "object",
                             !.auths = {"ghcr.io", "https://index.docker.io/v1/"}]

StoreFile == [Absent EXCEPT !.kind = "file", !.syntax = "object",
                            !.credsStore = "desktop"]

HelpersFile == [Absent EXCEPT !.kind = "file", !.syntax = "object",
                              !.auths = {"quay.io"},
                              !.credHelpers = {<<"gcr.io", "gcloud">>}]

FileStates == {Absent, Unreadable, Garbage, JsonArray, InlineFile, StoreFile, HelpersFile}

Runtimes == {"docker", "podman", "unknown"}

GoosValues == {"linux", "darwin", "freebsd"}

\* the values of the environment variables candidatePaths reads
Environments ==
    [REGISTRY_AUTH_FILE : {<<>>, <<"/custom/", "auth.json">>},
     XDG_RUNTIME_DIR    : {<<>>, <<"/run/user/1000/">>},
     DOCKER_CONFIG      : {<<>>, <<"/custom/", "docker">>, <<"/home/u/", ".docker">>}]

\* a variable the runtime's branch of candidatePaths never reads stays unset
EnvRead(rt, os, e) ==
    /\ (rt # "podman") => e.REGISTRY_AUTH_FILE = <<>>
    /\ (rt # "podman" \/ os # "linux") => e.XDG_RUNTIME_DIR = <<>>
    /\ (rt # "docker") => e.DOCKER_CONFIG = <<>>

Range(q) == {q[i] : i \in DOMAIN q}

\* ------------------------------------------------------------------ FindCredentials

CredInit ==
    /\ credRuntime \in Runtimes
    /\ goos \in GoosValues
    /\ env \in {e \in Environments : EnvRead(credRuntime, goos, e)}
    /\ fs \in [Range(pathStrings(candidatePaths(credRuntime, goos, env))) -> FileStates]
    /\ credIdx = 1
    /\ examined = <<>>
    /\ credRet = <<>>
    /\ cpc = "loop"
    /\ ApplyIdle
    /\ ConfigIdle
    /\ CreateIdle
    /\ ManagerIdle
    /\ DetectIdle

\* mutant of CredExamine: a file that exists and does not parse ends the search
CredExamine_Strict ==
    /\ cpc = "loop"
    /\ LET paths == candidatePaths(credRuntime, goos, env)
       IN  /\ credIdx <= Len(paths)
           /\ LET candidate == paths[credIdx]
                  expanded  == expandPath(candidate.path)
                  file      == fs[expanded]
                  parsed    == Unmarshal(file)
              IN  /\ examined' = Append(examined, expanded)
                  /\ IF file.kind # "file"
                     THEN /\ credIdx' = credIdx + 1
                          /\ UNCHANGED <<credRet, cpc>>
                     ELSE IF parsed.err
                     THEN /\ credRet' = << [info |-> <<>>, err |-> "invalid JSON"] >>
                          /\ cpc' = "done"
                          /\ UNCHANGED credIdx
                     ELSE /\ \E regs \in KeyOrders(parsed.cfg.Auths) :
                                credRet' = << [info |-> << CredentialInfo(expanded,
                                                   candidate.source, parsed.cfg, regs) >>,
                                               err |-> ""] >>
                          /\ cpc' = "done"
                          /\ UNCHANGED credIdx
    /\ UNCHANGED <<credRuntime, goos, env, fs>>
    /\ UNCHANGED notCred

\* FindCredentials: one iteration of "for _, candidate := range paths"
CredExamine ==
    /\ cpc = "loop"
    /\ LET paths == candidatePaths(credRuntime, goos, env)
       IN  /\ credIdx <= Len(paths)
           /\ LET candidate == paths[credIdx]
                  expanded  == expandPath(candidate.path)
                  file      == fs[expanded]
                  parsed    == Unmarshal(file)
              IN  /\ examined' = Append(examined, expanded)
                  /\ IF file.kind = "absent"          \* os.Stat fails: continue
                        \/ file.kind = "unreadable"   \* os.ReadFile fails: continue
                        \/ parsed.err                 \* json.Unmarshal fails: continue
                     THEN /\ credIdx' = credIdx + 1
                          /\ UNCHANGED <<credRet, cpc>>
                     ELSE /\ \E regs \in KeyOrders(parsed.cfg.Auths) :
                                credRet' = << [info |-> << CredentialInfo(expanded,
                                                   candidate.source, parsed.cfg, regs) >>,
                                               err |-> ""] >>
                          /\ cpc' = "done"
                          /\ UNCHANGED credIdx
    /\ UNCHANGED <<credRuntime, goos, env, fs>>
    /\ UNCHANGED notCred

\* FindCredentials: the loop ran out of candidates
CredNotFound ==
    /\ cpc = "loop"
    /\ credIdx > Len(candidatePaths(credRuntime, goos, env))
    /\ credRet' = << [info |-> <<>>, err |-> "no registry credentials found"] >>
    /\ cpc' = "done"
    /\ UNCHANGED <<credRuntime, goos, env, fs, credIdx, examined>>
    /\ UNCHANGED notCred

CredNext == CredExamine \/ CredNotFound

SpecCred == CredInit /\ [][CredNext]_vars

\* ------------------------------------------------------------------ claims: FindCredentials

\* the file exists on disk and does not parse as JSON of the expected shape
ExistsUnparsable(file) == file.kind = "file" /\ Unmarshal(file).err

\* the file exists, can be read and parses
Usable(file) == file.kind = "file" /\ ~Unmarshal(file).err

\* C2 as stated: a candidate that exists and does not parse ends the search with a
\* failure; no later candidate is examined or returned.
C2_UnparsableEndsSearch ==
    \A i \in DOMAIN examined :
        ExistsUnparsable(fs[examined[i]]) =>
            /\ i = Len(examined)
            /\ credRet # <<>> => credRet[1].err # ""

\* C2 amended: a candidate that exists and does not parse is skipped like a missing
\* one. The search goes on to the next candidate, returns the first candidate that
\* exists and parses, and fails only when the list holds no such candidate.
C2_UnparsableIsSkipped ==
    LET paths == pathStrings(candidatePaths(credRuntime, goos, env))
    IN  /\ \A i \in DOMAIN examined : examined[i] = paths[i]
        /\ \A i \in DOMAIN examined :
              (ExistsUnparsable(fs[examined[i]]) /\ i < Len(examined)) =>
                  examined[i + 1] = paths[i + 1]
        /\ cpc = "done" =>
              IF \E i \in DOMAIN paths : Usable(fs[paths[i]])
              THEN /\ credRet[1].err = ""
                   /\ Usable(fs[credRet[1].info[1].FilePath])
                   /\ credRet[1].info[1].FilePath = examined[Len(examined)]
                   /\ \A i \in 1..(Len(examined) - 1) : ~Usable(fs[examined[i]])
              ELSE /\ credRet[1].err # ""
                   /\ Len(examined) = Len(paths)

\* C2 witness: an unparsable file came first and a later candidate was returned
C2_Witness ==
    /\ cpc = "done"
    /\ credRet[1].err = ""
    /\ Len(examined) >= 2
    /\ ExistsUnparsable(fs[examined[1]])
    /\ credRet[1].info[1].FilePath = examined[Len(examined)]
    /\ credRet[1].info[1].FilePath # examined[1]

\* the candidates in the claimed order: the environment override, the OS-specific
\* default locations, then for podman the docker default path
ClaimedOrder(paths) ==
    /\ (credRuntime = "podman" /\ env.REGISTRY_AUTH_FILE # <<>>) =>
          paths[1] = [path |-> env.REGISTRY_AUTH_FILE, source |-> "podman"]
    /\ (credRuntime = "docker" /\ env.DOCKER_CONFIG # <<>>) =>
          paths[1] = [path |-> env.DOCKER_CONFIG \o <<"config.json">>, source |-> "docker"]
    /\ credRuntime = "podman" =>
          /\ paths[Len(paths)] = DockerDefault
          /\ \A i \in 1..(Len(paths) - 1) : paths[i].source = "podman"
          /\ (goos = "linux" /\ env.XDG_RUNTIME_DIR # <<>>) =>
                /\ paths[Len(paths) - 2].path = env.XDG_RUNTIME_DIR \o <<"containers", "auth.json">>
                /\ paths[Len(paths) - 1] = PodmanDefault
          /\ goos \in {"linux", "darwin", "windows"} => paths[Len(paths) - 1] = PodmanDefault
    /\ credRuntime = "docker" => paths[Len(paths)] = DockerDefault

\* the index of the first candidate whose file exists, can be read and parses; 0 if none
FirstUsable(paths) ==
    IF \E i \in DOMAIN paths : Usable(fs[expandPath(paths[i].path)])
    THEN CHOOSE i \in DOMAIN paths :
            /\ Usable(fs[expandPath(paths[i].path)])
            /\ \A j \in 1..(i - 1) : ~Usable(fs[expandPath(paths[j].path)])
    ELSE 0

\* C15: FindCredentials returns the first candidate, in the order environment
\* override, OS-specific default locations, then (for podman) the docker default
\* path, that exists and parses; candidates that do not exist are skipped; the source
\* label and file path returned are those of that candidate; when no candidate is
\* returned the call fails with the not-found error.
C15_FirstCandidateInOrder ==
    LET paths == candidatePaths(credRuntime, goos, env)
        k     == FirstUsable(paths)
    IN  /\ ClaimedOrder(paths)
        /\ \A i \in DOMAIN examined :
              fs[examined[i]].kind = "absent" => (credRet = <<>> \/ i < Len(examined)
                                                  \/ credRet[1].err # "")
        /\ cpc = "done" =>
              IF k = 0
              THEN credRet[1].info = <<>> /\ credRet[1].err = "no registry credentials found"
              ELSE /\ credRet[1].err = ""
                   /\ credRet[1].info[1].FilePath = expandPath(paths[k].path)
                   /\ credRet[1].info[1].Source = paths[k].source
                   /\ Len(examined) = k

\* C15 witness: podman on linux, the override and the podman locations are missing,
\* the docker default path is returned with the source label docker
C15_Witness ==
    /\ cpc = "done" /\ credRuntime = "podman" /\ goos = "linux"
    /\ env.REGISTRY_AUTH_FILE # <<>> /\ env.XDG_RUNTIME_DIR # <<>>
    /\ Len(examined) = 4
    /\ \A i \in 1..3 : fs[examined[i]].kind = "absent"
    /\ credRet[1].err = "" /\ credRet[1].info[1].Source = "docker"

\* C16: in every CredentialInfo FindCredentials returns, InlineAuth is true if and
\* only if the parsed file has an empty credential-store name and an empty
\* per-registry helper map; whenever the store name is non-empty the note is non-empty.
C16_InlineAuthIffNoHelper ==
    (cpc = "done" /\ credRet[1].err = "") =>
        LET info == credRet[1].info[1]
            file == fs[info.FilePath]
        IN  /\ info.InlineAuth <=> (file.credsStore = "" /\ file.credHelpers = {})
            /\ file.credsStore # "" => info.Notes # <<>>
            /\ info.CredStore = file.credsStore

\* C16 witness: a file naming a credential store and holding no auths is returned
C16_Witness ==
    /\ cpc = "done" /\ credRet[1].err = ""
    /\ fs[credRet[1].info[1].FilePath] = StoreFile
    /\ ~credRet[1].info[1].InlineAuth
    /\ Len(credRet[1].info[1].Notes) = 2

\* C16 witness for the helper map: no store, a per-registry helper, not inline
C16_HelpersWitness ==
    /\ cpc = "done" /\ credRet[1].err = ""
    /\ fs[credRet[1].info[1].FilePath] = HelpersFile
    /\ ~credRet[1].info[1].InlineAuth

\* ------------------------------------------------------------------ inputs: documents

\* DefaultPortMappings("")
DefaultPortMappings ==
    << [HostPort |-> 80, ContainerPort |-> 80, ListenAddress |-> "127.0.0.1",
        Protocol |-> "TCP"],
       [HostPort |-> 443, ContainerPort |-> 443, ListenAddress |-> "127.0.0.1",
        Protocol |-> "TCP"] >>

CredentialMount ==
    [HostPath |-> <<"/home/u/", ".docker", "config.json">>,
     ContainerPath |-> "/var/lib/kubelet/config.json", ReadOnly |-> TRUE, Propagation |-> ""]

\* the networking options: none set, each one set alone, all set
NetworkingOptions ==
    LET none == [PodSubnet |-> "", ServiceSubnet |-> "", DisableDefaultCNI |-> FALSE,
                 IPFamily |-> "", KubeProxyMode |-> "", APIServerPort |-> 0]
    IN  { none,
          [none EXCEPT !.PodSubnet = "10.244.0.0/16"],
          [none EXCEPT !.ServiceSubnet = "10.96.0.0/12"],
          [none EXCEPT !.DisableDefaultCNI = TRUE],
          [none EXCEPT !.IPFamily = "dual"],
          [none EXCEPT !.KubeProxyMode = "ipvs"],
          [none EXCEPT !.APIServerPort = 6443],
          [PodSubnet |-> "10.244.0.0/16", ServiceSubnet |-> "10.96.0.0/12",
           DisableDefaultCNI |-> TRUE, IPFamily |-> "dual", KubeProxyMode |-> "ipvs",
           APIServerPort |-> 6443] }

\* the ConfigOptions GenerateConfig is called with
OptionValues ==
    { [ZeroConfigOptions EXCEPT
          !.ClusterName = name, !.NumControlPlanes = c, !.NumWorkers = w,
          !.KubernetesVersion = version, !.PortMappings = ports, !.ExtraMounts = mounts,
          !.ContainerdPatches = patches, !.Labels = labels,
          !.PodSubnet = net.PodSubnet, !.ServiceSubnet = net.ServiceSubnet,
          !.DisableDefaultCNI = net.DisableDefaultCNI, !.IPFamily = net.IPFamily,
          !.KubeProxyMode = net.KubeProxyMode, !.APIServerPort = net.APIServerPort] :
        name \in {"", "demo"},
        c \in (-1)..MaxControlPlanes,
        w \in (-1)..MaxWorkers,
        version \in {<<>>, <<"1.31.0">>, <<"v", "1.30.0">>},
        ports \in {<<>>, DefaultPortMappings},
        mounts \in {<<>>, <<CredentialMount>>},
        patches \in {<<>>, <<"config_path = /etc/containerd/certs.d">>},
        labels \in {{}, {<<"tier", "dev">>}},
        net \in NetworkingOptions }

\* text that is no YAML mapping: yaml.Unmarshal returns an error
InvalidText == [EmptyText EXCEPT !.syntax = "invalid"]

\* a hand-written document: "" stands for a key the text leaves out
RawText(kind, apiVersion, roles) ==
    [syntax |-> "mapping",
     keys |-> (IF kind # "" THEN {"kind"} ELSE {})
              \cup (IF apiVersion # "" THEN {"apiVersion"} ELSE {})
              \cup (IF Len(roles) > 0 THEN {"nodes"} ELSE {}),
     v |-> [EmptyText.v EXCEPT
               !.kind = kind, !.apiVersion = apiVersion,
               !.nodes = [i \in DOMAIN roles |->
                             [keys |-> IF roles[i] # "" THEN {"role"} ELSE {},
                              v |-> [ZeroNodeConfig EXCEPT !.Role = roles[i]]]]]]

RawTexts ==
    {InvalidText}
    \cup { RawText(kind, apiVersion, roles) :
              kind \in {"", "Cluster", "Pod"},
              apiVersion \in {"", "kind.x-k8s.io/v1alpha4", "v1"},
              roles \in SeqsUpTo({"control-plane", "worker", "bogus", ""}, MaxRawNodes) }

\* ------------------------------------------------------------------ GenerateConfig, ValidateConfig

ConfigInit ==
    /\ \/ /\ cfgSource = "GenerateConfig"
          /\ opts \in OptionValues
          /\ configYAML = EmptyText
          /\ kpc = "generate"
       \/ /\ cfgSource = "caller"
          /\ opts = ZeroConfigOptions
          /\ configYAML \in RawTexts
          /\ kpc = "validate"
    /\ cfgErr = ""
    /\ valErr = ""
    /\ mountCredentials = FALSE
    /\ ApplyIdle
    /\ CredIdle
    /\ CreateIdle
    /\ ManagerIdle
    /\ DetectIdle

\* GenerateConfig(opts)
ConfigGenerate ==
    /\ kpc = "generate"
    /\ LET r == GenerateConfig(opts)
       IN  /\ cfgErr' = r.err
           /\ configYAML' = r.text
           /\ kpc' = IF r.err # "" THEN "done" ELSE "validate"
    /\ UNCHANGED <<opts, cfgSource, valErr, mountCredentials>>
    /\ UNCHANGED notConfig

\* ValidateConfig(configYAML)
ConfigValidate ==
    /\ kpc = "validate"
    /\ valErr' = ValidateConfig(configYAML)
    /\ kpc' = "done"
    /\ UNCHANGED <<opts, cfgSource, configYAML, cfgErr, mountCredentials>>
    /\ UNCHANGED notConfig

ConfigNext == ConfigGenerate \/ ConfigValidate

SpecConfig == ConfigInit /\ [][ConfigNext]_vars

\* ------------------------------------------------------------------ claims: GenerateConfig, ValidateConfig

\* GenerateConfig has returned a document
Generated_OK == cfgSource = "GenerateConfig" /\ kpc \in {"validate", "done"} /\ cfgErr = ""

\* the nodes a reader of the document finds
DocumentNodes == YamlUnmarshal(configYAML).cfg.Nodes

\* C5: with a non-empty cluster name the node list is exactly c' control-plane nodes
\* followed by exactly w' workers, c' = c when c > 0 and 1 otherwise, w' = w when
\* w > 0 and 0 otherwise; no worker precedes a control-plane node.
C5_ControlPlanesThenWorkers ==
    Generated_OK =>
        LET c == IF opts.NumControlPlanes > 0 THEN opts.NumControlPlanes ELSE 1
            w == IF opts.NumWorkers > 0 THEN opts.NumWorkers ELSE 0
        IN  /\ opts.ClusterName # ""
            /\ Len(DocumentNodes) = c + w
            /\ \A i \in DOMAIN DocumentNodes :
                  DocumentNodes[i].Role = (IF i <= c THEN "control-plane" ELSE "worker")

\* C5 witness: a non-positive control-plane count and two workers
C5_Witness ==
    /\ Generated_OK
    /\ opts.NumControlPlanes = -1 /\ opts.NumWorkers = 2
    /\ Len(DocumentNodes) = 3

\* C6: with a non-empty cluster name, whatever the counts and options, ValidateConfig
\* accepts the document GenerateConfig returns; GenerateConfig fails exactly when the
\* cluster name is empty.
C6_GeneratedIsValid ==
    (cfgSource = "GenerateConfig" /\ kpc # "generate") =>
        /\ (cfgErr # "") <=> (opts.ClusterName = "")
        /\ (kpc = "done" /\ opts.ClusterName # "") => valErr = ""
        /\ (kpc = "validate") => ValidateConfig(configYAML) = ""

\* C6 witness: a validated document for negative counts with every option set
C6_Witness ==
    /\ cfgSource = "GenerateConfig" /\ kpc = "done" /\ cfgErr = "" /\ valErr = ""
    /\ opts.NumControlPlanes = -1 /\ opts.NumWorkers = -1
    /\ opts.APIServerPort = 6443 /\ opts.PodSubnet # ""
    /\ Len(opts.PortMappings) = 2 /\ Len(opts.ExtraMounts) = 1

\* C7: a document that parses is accepted if and only if kind is "Cluster", apiVersion
\* is "kind.x-k8s.io/v1alpha4", every node role is "control-plane" or "worker", and
\* there are no nodes or some node is a control-plane.
C7_ValidateIff ==
    (kpc = "done" /\ cfgErr = "" /\ ~YamlUnmarshal(configYAML).err) =>
        LET cfg == YamlUnmarshal(configYAML).cfg
        IN  (valErr = "") <=>
                /\ cfg.Kind = "Cluster"
                /\ cfg.APIVersion = "kind.x-k8s.io/v1alpha4"
                /\ \A i \in DOMAIN cfg.Nodes : cfg.Nodes[i].Role \in {"control-plane", "worker"}
                /\ \/ Len(cfg.Nodes) = 0
                   \/ \E i \in DOMAIN cfg.Nodes : cfg.Nodes[i].Role = "control-plane"

\* C7 witness: a hand-written document of workers only is rejected
C7_Witness ==
    /\ kpc = "done" /\ cfgSource = "caller"
    /\ configYAML = RawText("Cluster", "kind.x-k8s.io/v1alpha4", <<"worker", "worker">>)
    /\ valErr = "at least one control-plane node is required"

\* C8: the port mappings of the options are on the first control-plane node only;
\* every other control-plane node and every worker has none.
C8_PortMappingsOnFirstNode ==
    Generated_OK =>
        \A i \in DOMAIN DocumentNodes :
            DocumentNodes[i].ExtraPortMappings = (IF i = 1 THEN opts.PortMappings ELSE <<>>)

\* C8 witness: port mappings, several control-plane nodes and a worker
C8_Witness ==
    /\ Generated_OK
    /\ Len(opts.PortMappings) = 2
    /\ opts.NumControlPlanes = 3 /\ opts.NumWorkers = 2
    /\ Len(DocumentNodes) = 5
    /\ DocumentNodes[1].ExtraPortMappings = DefaultPortMappings

\* ------------------------------------------------------------------ inputs: CreateCluster

\* the names os.CreateTemp("", "kind-config-*.yaml") picks from
TempNames == {"kind-config-1.yaml", "kind-config-2.yaml", "kind-config-3.yaml"}

\* the texts CreateCluster is called with: a generated document, the empty text,
\* text that is no YAML, a document of the wrong kind, a document with a bad role
CreateTexts ==
    { GenerateConfig([ZeroConfigOptions EXCEPT !.ClusterName = "demo",
                                                !.NumControlPlanes = 1]).text,
      EmptyText,
      InvalidText,
      RawText("Pod", "kind.x-k8s.io/v1alpha4", <<"control-plane">>),
      RawText("Cluster", "kind.x-k8s.io/v1alpha4", <<"control-plane", "bogus">>) }

\* what m.runner.Run("kind", "create", "cluster", ...) can return
CreateOutcomes ==
    { [out |-> "Creating cluster", err |-> ""],
      [out |-> "ERROR: failed to create cluster", err |-> "exit status 1"] }

\* ------------------------------------------------------------------ manager.go: CreateCluster

\* kindArgs: the extra arguments for the kind CLI
kindArgs(rt) == IF rt = "podman" THEN <<"--runtime", "podman">> ELSE << >>

\* the file of the temporary directory with the given name, <<>> when there is none
FileAt(dir, name) ==
    IF \E f \in dir : f.name = name
    THEN << CHOOSE f \in dir : f.name = name >>
    ELSE << >>

\* os.Remove(name)
Remove(dir, name) == {f \in dir : f.name # name}

CreateInit ==
    /\ mgrRuntime \in Runtimes
    /\ createName \in [Calls -> {"", "demo"}]
    /\ createConfig \in [Calls -> CreateTexts]
    /\ tmpFile = [c \in Calls |-> ""]
    /\ createRet = [c \in Calls |-> NoReturn]
    /\ createPc = [c \in Calls |-> "check"]
    /\ tmpDir = {}
    /\ runnerCalls = << >>
    /\ ApplyIdle
    /\ CredIdle
    /\ ConfigIdle
    /\ ManagerIdle
    /\ DetectIdle

\* mutant of CreateCheck: the configuration is checked before the name
CreateCheck_ConfigFirst(c) ==
    /\ createPc[c] = "check"
    /\ LET verr == ValidateConfig(createConfig[c])
       IN  IF verr # ""
           THEN /\ createRet' = [createRet EXCEPT ![c] = [out |-> "", err |-> "invalid config", errOutput |-> ""]]
                /\ createPc' = [createPc EXCEPT ![c] = "done"]
           ELSE IF createName[c] = ""
           THEN /\ createRet' = [createRet EXCEPT
                                    ![c] = [out |-> "", err |-> "cluster name is required", errOutput |-> ""]]
                /\ createPc' = [createPc EXCEPT ![c] = "done"]
           ELSE /\ createPc' = [createPc EXCEPT ![c] = "createTemp"]
                /\ UNCHANGED createRet
    /\ UNCHANGED <<mgrRuntime, createName, createConfig, tmpFile, tmpDir, runnerCalls>>
    /\ UNCHANGED notCreate

\* CreateCluster, lines 58-63: the name check, then ValidateConfig
CreateCheck(c) ==
    /\ createPc[c] = "check"
    /\ LET verr == ValidateConfig(createConfig[c])
       IN  IF createName[c] = ""
           THEN /\ createRet' = [createRet EXCEPT
                                    ![c] = [out |-> "", err |-> "cluster name is required", errOutput |-> ""]]
                /\ createPc' = [createPc EXCEPT ![c] = "done"]
           ELSE IF verr # ""
           THEN /\ createRet' = [createRet EXCEPT ![c] = [out |-> "", err |-> "invalid config", errOutput |-> ""]]
                /\ createPc' = [createPc EXCEPT ![c] = "done"]
           ELSE /\ createPc' = [createPc EXCEPT ![c] = "createTemp"]
                /\ UNCHANGED createRet
    /\ UNCHANGED <<mgrRuntime, createName, createConfig, tmpFile, tmpDir, runnerCalls>>
    /\ UNCHANGED notCreate

\* mutant of CreateTemp: the file is created under one fixed name, as os.Create would,
\* truncating a file that is already there
CreateTemp_FixedName(c) ==
    /\ createPc[c] = "createTemp"
    /\ \/ /\ tmpDir' = Remove(tmpDir, "kind-config-1.yaml")
                         \cup {[name |-> "kind-config-1.yaml", creator |-> c,
                                written |-> "nothing", text |-> EmptyText]}
          /\ tmpFile' = [tmpFile EXCEPT ![c] = "kind-config-1.yaml"]
          /\ createPc' = [createPc EXCEPT ![c] = "write"]
          /\ UNCHANGED createRet
       \/ /\ createRet' = [createRet EXCEPT
                              ![c] = [out |-> "", err |-> "creating temp config file", errOutput |-> ""]]
          /\ createPc' = [createPc EXCEPT ![c] = "done"]
          /\ UNCHANGED <<tmpDir, tmpFile>>
    /\ UNCHANGED <<mgrRuntime, createName, createConfig, runnerCalls>>
    /\ UNCHANGED notCreate

\* CreateCluster, lines 65-69: os.CreateTemp makes an empty file under a name that is
\* not in use, or fails; the removal is deferred only once the file exists
CreateTemp(c) ==
    /\ createPc[c] = "createTemp"
    /\ \/ \E n \in TempNames :
             /\ FileAt(tmpDir, n) = << >>
             /\ tmpDir' = tmpDir \cup {[name |-> n, creator |-> c, written |-> "nothing",
                                        text |-> EmptyText]}
             /\ tmpFile' = [tmpFile EXCEPT ![c] = n]
             /\ createPc' = [createPc EXCEPT ![c] = "write"]
             /\ UNCHANGED createRet
       \/ /\ createRet' = [createRet EXCEPT
                              ![c] = [out |-> "", err |-> "creating temp config file", errOutput |-> ""]]
          /\ createPc' = [createPc EXCEPT ![c] = "done"]
          /\ UNCHANGED <<tmpDir, tmpFile>>
    /\ UNCHANGED <<mgrRuntime, createName, createConfig, runnerCalls>>
    /\ UNCHANGED notCreate

\* the temporary directory after a write of text to the file called name: the handle
\* is on the file this call created, which is changed only while it is still there
WriteFile(dir, name, how, text) ==
    { IF f.name = name THEN [f EXCEPT !.written = how, !.text = text] ELSE f : f \in dir }

\* mutant of CreateWrite: a failed write returns at once, nothing is removed
CreateWrite_NoRemove(c) ==
    /\ createPc[c] = "write"
    /\ \/ /\ tmpDir' = WriteFile(tmpDir, tmpFile[c], "all", createConfig[c])
          /\ createPc' = [createPc EXCEPT ![c] = "run"]
          /\ UNCHANGED createRet
       \/ \E how \in {"nothing", "part"} :
             /\ tmpDir' = WriteFile(tmpDir, tmpFile[c], how, createConfig[c])
             /\ createRet' = [createRet EXCEPT
                                 ![c] = [out |-> "", err |-> "writing config to temp file", errOutput |-> ""]]
             /\ createPc' = [createPc EXCEPT ![c] = "done"]
    /\ UNCHANGED <<mgrRuntime, createName, createConfig, tmpFile, runnerCalls>>
    /\ UNCHANGED notCreate

\* CreateCluster, lines 71-75: WriteString and Close; a failed write leaves nothing
\* or a part of the text in the file, and the call returns through the deferred removal
CreateWrite(c) ==
    /\ createPc[c] = "write"
    /\ \/ /\ tmpDir' = WriteFile(tmpDir, tmpFile[c], "all", createConfig[c])
          /\ createPc' = [createPc EXCEPT ![c] = "run"]
          /\ UNCHANGED createRet
       \/ \E how \in {"nothing", "part"} :
             /\ tmpDir' = WriteFile(tmpDir, tmpFile[c], how, createConfig[c])
             /\ createRet' = [createRet EXCEPT
                                 ![c] = [out |-> "", err |-> "writing config to temp file", errOutput |-> ""]]
             /\ createPc' = [createPc EXCEPT ![c] = "deferred"]
    /\ UNCHANGED <<mgrRuntime, createName, createConfig, tmpFile, runnerCalls>>
    /\ UNCHANGED notCreate

\* the argument vector of the kind CLI, line 77
CreateArgs(rt, name, path) ==
    kindArgs(rt) \o <<"create", "cluster", "--name", name, "--config", path>>

\* CreateCluster, lines 77-80: m.runner.Run("kind", args...) starts the CLI, which
\* reads the file named by --config as it is in the temporary directory
CreateRun(c) ==
    /\ createPc[c] = "run"
    /\ runnerCalls' = Append(runnerCalls,
                             [call |-> c, bin |-> "kind",
                              args |-> CreateArgs(mgrRuntime, createName[c], tmpFile[c]),
                              found |-> FileAt(tmpDir, tmpFile[c])])
    /\ createPc' = [createPc EXCEPT ![c] = "running"]
    /\ UNCHANGED <<mgrRuntime, createName, createConfig, tmpFile, createRet, tmpDir>>
    /\ UNCHANGED notCreate

\* CreateCluster, lines 80-85: the CLI has ended, m.runner.Run returns
CreateRunReturn(c) ==
    /\ createPc[c] = "running"
    /\ \E outcome \in CreateOutcomes :
          createRet' = [createRet EXCEPT
                           ![c] = IF outcome.err # ""
                                  THEN [out |-> outcome.out,
                                        err |-> "kind create cluster failed",
                                        errOutput |-> outcome.out]
                                  ELSE [out |-> outcome.out, err |-> "",
                                        errOutput |-> ""]]
    /\ createPc' = [createPc EXCEPT ![c] = "deferred"]
    /\ UNCHANGED <<mgrRuntime, createName, createConfig, tmpFile, tmpDir, runnerCalls>>
    /\ UNCHANGED notCreate

\* CreateCluster, line 69: the deferred os.Remove(tmpFile.Name()) runs as the call returns
CreateDeferredRemove(c) ==
    /\ createPc[c] = "deferred"
    /\ tmpDir' = Remove(tmpDir, tmpFile[c])
    /\ createPc' = [createPc EXCEPT ![c] = "done"]
    /\ UNCHANGED <<mgrRuntime, createName, createConfig, tmpFile, createRet, runnerCalls>>
    /\ UNCHANGED notCreate

CreateNext ==
    \E c \in Calls :
        \/ CreateCheck(c)
        \/ CreateTemp(c)
        \/ CreateWrite(c)
        \/ CreateRun(c)
        \/ CreateRunReturn(c)
        \/ CreateDeferredRemove(c)

SpecCreate == CreateInit /\ [][CreateNext]_vars

\* ------------------------------------------------------------------ claims: CreateCluster

\* the runner invocations a call has made
RunsOf(c) == {i \in DOMAIN runnerCalls : runnerCalls[i].call = c}

\* the call has created its temporary file
HasCreatedFile(c) == tmpFile[c] # ""

\* C9: CreateCluster checks the name first and the configuration second; when either
\* check fails it returns an error without creating a temporary file and without
\* invoking any external command; the create subcommand of the cluster CLI is invoked
\* only after ValidateConfig has accepted the text.
C9_ChecksBeforeEffects ==
    /\ \A c \in Calls :
          LET failed == createName[c] = "" \/ ValidateConfig(createConfig[c]) # ""
          IN  /\ (failed /\ createPc[c] # "check") =>
                    /\ createPc[c] = "done"
                    /\ createRet[c].err = (IF createName[c] = "" THEN "cluster name is required"
                                           ELSE "invalid config")
              /\ failed => (~HasCreatedFile(c) /\ RunsOf(c) = {})
              /\ failed => \A f \in tmpDir : f.creator # c
    /\ \A i \in DOMAIN runnerCalls :
          /\ createName[runnerCalls[i].call] # ""
          /\ ValidateConfig(createConfig[runnerCalls[i].call]) = ""

\* C9 witness: one call with an empty name and a bad text has returned the name
\* error, the other has reached the cluster CLI
C9_Witness ==
    \E c, d \in Calls :
        /\ createPc[c] = "done" /\ createName[c] = "" /\ createConfig[c] = InvalidText
        /\ createRet[c].err = "cluster name is required"
        /\ createPc[d] = "done" /\ RunsOf(d) # {} /\ createRet[d].err = ""

\* C10: a temporary file CreateCluster has created no longer exists once the call has
\* returned, whether the CLI succeeded, the CLI failed or the write failed; and when
\* the create subcommand is invoked the file exists and holds the whole text.
C10_TempFileScoped ==
    /\ \A c \in Calls :
          (createPc[c] = "done" /\ HasCreatedFile(c)) =>
              /\ \A f \in tmpDir : f.creator # c
              /\ createRet[c].err \in {"", "kind create cluster failed",
                                       "writing config to temp file"}
    /\ \A i \in DOMAIN runnerCalls :
          LET r == runnerCalls[i]
          IN  /\ r.found # << >>
              /\ r.found[1].creator = r.call
              /\ r.found[1].written = "all"
              /\ r.found[1].text = createConfig[r.call]

\* C10 witness: one call has returned after a failed write that left part of the text,
\* the other after a failed CLI run, and the temporary directory is empty again
C10_Witness ==
    \E c, d \in Calls :
        /\ createPc[c] = "done" /\ createRet[c].err = "writing config to temp file"
        /\ createPc[d] = "done" /\ createRet[d].err = "kind create cluster failed"
        /\ HasCreatedFile(c) /\ HasCreatedFile(d) /\ RunsOf(d) # {}
        /\ tmpDir = {}

\* C10 witness of the successful path: the CLI has succeeded and the file is gone
C10_SuccessPath ==
    \E c \in Calls :
        /\ createPc[c] = "done" /\ createRet[c].err = "" /\ RunsOf(c) # {}
        /\ \A f \in tmpDir : f.creator # c

\* the call is between os.CreateTemp and the deferred os.Remove
HoldsFile(c) == createPc[c] \in {"write", "run", "running", "deferred"}

\* C11: two CreateCluster calls running concurrently never use the same temporary
\* file: while a call holds a file the name is its own alone, the file is the one it
\* created, and while its CLI invocation is reading the file the other call's
\* cleanup has neither removed nor truncated it.
C11_NoSharedTempFile ==
    /\ \A c, d \in Calls :
          (c # d /\ HoldsFile(c) /\ HoldsFile(d)) => tmpFile[c] # tmpFile[d]
    /\ \A c \in Calls :
          HoldsFile(c) =>
              /\ FileAt(tmpDir, tmpFile[c]) # << >>
              /\ FileAt(tmpDir, tmpFile[c])[1].creator = c
              /\ createPc[c] \in {"run", "running"} =>
                    /\ FileAt(tmpDir, tmpFile[c])[1].written = "all"
                    /\ FileAt(tmpDir, tmpFile[c])[1].text = createConfig[c]
    /\ \A f \in tmpDir : HoldsFile(f.creator) /\ tmpFile[f.creator] = f.name
    /\ \A i \in DOMAIN runnerCalls :
          runnerCalls[i].found # << >> /\ runnerCalls[i].found[1].creator = runnerCalls[i].call

\* C11 witness: one call's CLI is reading its file while the other call, holding a
\* file of its own for the same text, is about to run its cleanup
C11_Witness ==
    \E c, d \in Calls :
        /\ c # d
        /\ createPc[c] = "running" /\ createPc[d] = "deferred"
        /\ HasCreatedFile(c) /\ HasCreatedFile(d)
        /\ createConfig[c] = createConfig[d]
        /\ Cardinality(tmpDir) = 2

\* ------------------------------------------------------------------ inputs: Manager operations

Operations == {"DeleteCluster", "ListClusters", "GetKubeconfig", "GetClusterStatus",
               "ExecOnNode", "GetClusterNodes"}

\* what a failed command leaves as combined output: nothing, or a message
FailureOutputs == { << >>, << <<"ERROR: ", "command failed">> >> }

\* the lines "kind get clusters" can print
ClusterLines ==
    { <<"dev">>, <<" ", "prod", " ">>, <<" ">>,
      <<"No kind clusters found.">>, <<" ", "No kind clusters found.">> }

ClusterOutputs == SeqsUpTo(ClusterLines, MaxLines)

\* what a successful inspect of a node prints: the state and a line end
InspectOutputs == { << <<"running">>, << >> >>, << <<" ", "exited">>, << >> >> }

\* ------------------------------------------------------------------ manager.go: the other operations

\* the error of an operation: <<>> is nil
NameRequired == << [msg |-> "cluster name is required", node |-> << >>, output |-> << >>] >>

\* fmt.Errorf("... failed: %w\nOutput: %s", err, string(out))
FailedWithOutput(msg, out) == << [msg |-> msg, node |-> << >>, output |-> out] >>

\* fmt.Errorf("kind get nodes failed: %w", err): the runner's error alone
FailedBare(msg) == << [msg |-> msg, node |-> << >>, output |-> << >>] >>

\* one m.runner.Run invocation and its result
RunRecord(bin, args, ok, out) == [bin |-> bin, args |-> args, ok |-> ok, out |-> out]

ManagerInit ==
    /\ mgrRuntime \in Runtimes
    /\ mgrOp \in Operations
    /\ mgrName \in (IF mgrOp = "ExecOnNode" THEN NodeNames ELSE {"", "demo"})
    /\ mgrInternal \in (IF mgrOp = "GetKubeconfig" THEN BOOLEAN ELSE {FALSE})
    /\ listing = << >>
    /\ lineIdx = 0
    /\ statusNodes = << >>
    /\ mgrRet = << >>
    /\ mgrCalls = << >>
    /\ mpc = "start"
    /\ createName = [c \in Calls |-> ""]
    /\ createConfig = [c \in Calls |-> EmptyText]
    /\ tmpFile = [c \in Calls |-> ""]
    /\ createRet = [c \in Calls |-> NoReturn]
    /\ createPc = [c \in Calls |-> "idle"]
    /\ tmpDir = {}
    /\ runnerCalls = << >>
    /\ ApplyIdle
    /\ CredIdle
    /\ ConfigIdle
    /\ DetectIdle

\* DeleteCluster
DeleteCluster ==
    /\ mpc = "start" /\ mgrOp = "DeleteCluster"
    /\ IF mgrName = ""
       THEN /\ mgrRet' = << [value |-> << >>, err |-> NameRequired] >>
            /\ UNCHANGED mgrCalls
       ELSE \E ok \in BOOLEAN :
            \E out \in (IF ok THEN { << <<"Deleting cluster ">> >> } ELSE FailureOutputs) :
               /\ mgrCalls' = Append(mgrCalls,
                     RunRecord("kind", kindArgs(mgrRuntime)
                                       \o <<"delete", "cluster", "--name", mgrName>>, ok, out))
               /\ mgrRet' = << [value |-> out,
                                err |-> IF ok THEN << >>
                                        ELSE FailedWithOutput("kind delete cluster failed",
                                                              out)] >>
    /\ mpc' = "done"
    /\ UNCHANGED <<mgrOp, mgrName, mgrInternal, listing, lineIdx, statusNodes>>
    /\ UNCHANGED notManager

\* mutant of ParseClusters: the sentinel line gets no special treatment
ParseClusters_NoSentinel(out) ==
    LET trimmed == TrimSpaceText(out)
    IN  IF trimmed = << >> THEN << >> ELSE NonEmptyLines(trimmed)

\* ListClusters after a successful "kind get clusters"
ParseClusters(out) ==
    LET trimmed == TrimSpaceText(out)
    IN  IF trimmed = << >> \/ trimmed = << <<"No kind clusters found.">> >>
        THEN << >>
        ELSE NonEmptyLines(trimmed)

\* ListClusters
ListClusters ==
    /\ mpc = "start" /\ mgrOp = "ListClusters"
    /\ \E ok \in BOOLEAN :
       \E out \in (IF ok THEN ClusterOutputs ELSE FailureOutputs) :
          /\ mgrCalls' = Append(mgrCalls,
                RunRecord("kind", kindArgs(mgrRuntime) \o <<"get", "clusters">>, ok, out))
          /\ mgrRet' = << [value |-> IF ok THEN ParseClusters(out) ELSE << >>,
                           err |-> IF ok THEN << >>
                                   ELSE FailedWithOutput("kind get clusters failed", out)] >>
    /\ mpc' = "done"
    /\ UNCHANGED <<mgrOp, mgrName, mgrInternal, listing, lineIdx, statusNodes>>
    /\ UNCHANGED notManager

\* GetKubeconfig
GetKubeconfig ==
    /\ mpc = "start" /\ mgrOp = "GetKubeconfig"
    /\ IF mgrName = ""
       THEN /\ mgrRet' = << [value |-> << >>, err |-> NameRequired] >>
            /\ UNCHANGED mgrCalls
       ELSE \E ok \in BOOLEAN :
            \E out \in (IF ok THEN { << <<"apiVersion: v1">> >> } ELSE FailureOutputs) :
               /\ mgrCalls' = Append(mgrCalls,
                     RunRecord("kind",
                               kindArgs(mgrRuntime)
                               \o <<"get", "kubeconfig", "--name", mgrName>>
                               \o (IF mgrInternal THEN <<"--internal">> ELSE << >>),
                               ok, out))
               /\ mgrRet' = << [value |-> IF ok THEN out ELSE << >>,
                                err |-> IF ok THEN << >>
                                        ELSE FailedWithOutput("kind get kubeconfig failed",
                                                              out)] >>
    /\ mpc' = "done"
    /\ UNCHANGED <<mgrOp, mgrName, mgrInternal, listing, lineIdx, statusNodes>>
    /\ UNCHANGED notManager

\* mutant of GetClusterNodes: the arguments of kindArgs are not prepended
GetClusterNodes_Bare ==
    /\ mpc = "start" /\ mgrOp = "GetClusterNodes"
    /\ \E ok \in BOOLEAN :
       \E out \in (IF ok THEN NodeOutputs ELSE FailureOutputs) :
          /\ mgrCalls' = Append(mgrCalls,
                RunRecord("kind", <<"get", "nodes", "--name", mgrName>>, ok, out))
          /\ mgrRet' = << [value |-> IF ok THEN ParseNodes(out) ELSE << >>,
                           err |-> IF ok THEN << >>
                                   ELSE FailedBare("kind get nodes failed")] >>
    /\ mpc' = "done"
    /\ UNCHANGED <<mgrOp, mgrName, mgrInternal, listing, lineIdx, statusNodes>>
    /\ UNCHANGED notManager

\* GetClusterNodes: the error wraps the runner's error and leaves the output out
GetClusterNodes ==
    /\ mpc = "start" /\ mgrOp = "GetClusterNodes"
    /\ \E ok \in BOOLEAN :
       \E out \in (IF ok THEN NodeOutputs ELSE FailureOutputs) :
          /\ mgrCalls' = Append(mgrCalls,
                RunRecord("kind", kindArgs(mgrRuntime)
                                  \o <<"get", "nodes", "--name", mgrName>>, ok, out))
          /\ mgrRet' = << [value |-> IF ok THEN ParseNodes(out) ELSE << >>,
                           err |-> IF ok THEN << >>
                                   ELSE FailedBare("kind get nodes failed")] >>
    /\ mpc' = "done"
    /\ UNCHANGED <<mgrOp, mgrName, mgrInternal, listing, lineIdx, statusNodes>>
    /\ UNCHANGED notManager

\* ExecOnNode(mgrName, cmd)
ExecOnNodeCall ==
    /\ mpc = "start" /\ mgrOp = "ExecOnNode"
    /\ \E outcome \in ExecOutcomes(0) :
          LET cmd  == RestartCommand.argv
              call == ExecCall(mgrName, cmd)
              r    == ExecOnNode(mgrName, cmd, outcome)
          IN  /\ mgrCalls' = Append(mgrCalls,
                                    RunRecord(call.bin, <<call.sub, call.node>> \o call.cmd,
                                              outcome.ok, outcome.out))
              /\ mgrRet' = << [value |-> r.out, err |-> r.err] >>
    /\ mpc' = "done"
    /\ UNCHANGED <<mgrOp, mgrName, mgrInternal, listing, lineIdx, statusNodes>>
    /\ UNCHANGED notManager

\* GetClusterStatus: the role of a node, from its name
RoleOf(nodeName) == IF Contains(nodeName, "control-plane") THEN "control-plane" ELSE "worker"

NotFound == << [msg |-> "cluster not found or has no nodes", node |-> << >>, output |-> << >>] >>

\* mutant of StatusList: an empty listing goes on to the loop over its lines
StatusList_EmptyOK ==
    /\ mpc = "start" /\ mgrOp = "GetClusterStatus"
    /\ IF mgrName = ""
       THEN /\ mgrRet' = << [value |-> << >>, err |-> NameRequired] >>
            /\ mpc' = "done"
            /\ UNCHANGED <<mgrCalls, listing, lineIdx>>
       ELSE \E ok \in BOOLEAN :
            \E out \in (IF ok THEN NodeOutputs ELSE FailureOutputs) :
               /\ mgrCalls' = Append(mgrCalls,
                     RunRecord("kind", kindArgs(mgrRuntime)
                                       \o <<"get", "nodes", "--name", mgrName>>, ok, out))
               /\ IF ~ok
                  THEN /\ mgrRet' = << [value |-> << >>,
                                        err |-> FailedWithOutput("kind get nodes failed",
                                                                 out)] >>
                       /\ mpc' = "done"
                       /\ UNCHANGED <<listing, lineIdx>>
                  ELSE /\ listing' = TrimSpaceText(out)
                       /\ lineIdx' = 1
                       /\ mpc' = "inspect"
                       /\ UNCHANGED mgrRet
    /\ UNCHANGED <<mgrOp, mgrName, mgrInternal, statusNodes>>
    /\ UNCHANGED notManager

\* GetClusterStatus, lines 153-169: the name check, "kind get nodes", the empty listing
StatusList ==
    /\ mpc = "start" /\ mgrOp = "GetClusterStatus"
    /\ IF mgrName = ""
       THEN /\ mgrRet' = << [value |-> << >>, err |-> NameRequired] >>
            /\ mpc' = "done"
            /\ UNCHANGED <<mgrCalls, listing, lineIdx>>
       ELSE \E ok \in BOOLEAN :
            \E out \in (IF ok THEN NodeOutputs ELSE FailureOutputs) :
               /\ mgrCalls' = Append(mgrCalls,
                     RunRecord("kind", kindArgs(mgrRuntime)
                                       \o <<"get", "nodes", "--name", mgrName>>, ok, out))
               /\ IF ~ok
                  THEN /\ mgrRet' = << [value |-> << >>,
                                        err |-> FailedWithOutput("kind get nodes failed",
                                                                 out)] >>
                       /\ mpc' = "done"
                       /\ UNCHANGED <<listing, lineIdx>>
                  ELSE IF TrimSpaceText(out) = << >>
                  THEN /\ mgrRet' = << [value |-> << >>, err |-> NotFound] >>
                       /\ mpc' = "done"
                       /\ UNCHANGED <<listing, lineIdx>>
                  ELSE /\ listing' = TrimSpaceText(out)
                       /\ lineIdx' = 1
                       /\ mpc' = "inspect"
                       /\ UNCHANGED mgrRet
    /\ UNCHANGED <<mgrOp, mgrName, mgrInternal, statusNodes>>
    /\ UNCHANGED notManager

\* the arguments of the inspect call
InspectArgs(nodeName) == <<"inspect", "--format", "{{.State.Status}}", nodeName>>

\* mutant of StatusInspect: a failed inspect ends the call with an error
StatusInspect_Abort ==
    /\ mpc = "inspect"
    /\ lineIdx <= Len(listing)
    /\ LET nodeName == TrimSpace(listing[lineIdx])
       IN  IF nodeName = << >>
           THEN /\ lineIdx' = lineIdx + 1
                /\ UNCHANGED <<statusNodes, mgrCalls, mgrRet, mpc>>
           ELSE \E ok \in BOOLEAN :
                \E out \in (IF ok THEN InspectOutputs ELSE FailureOutputs) :
                   /\ mgrCalls' = Append(mgrCalls,
                         RunRecord(RuntimeBin(mgrRuntime), InspectArgs(nodeName), ok, out))
                   /\ IF ok
                      THEN /\ statusNodes' = Append(statusNodes,
                                 [Name |-> nodeName, Role |-> RoleOf(nodeName),
                                  Status |-> TrimSpaceText(out)])
                           /\ lineIdx' = lineIdx + 1
                           /\ UNCHANGED <<mgrRet, mpc>>
                      ELSE /\ mgrRet' = << [value |-> << >>,
                                            err |-> FailedWithOutput("inspect failed", out)] >>
                           /\ mpc' = "done"
                           /\ UNCHANGED <<statusNodes, lineIdx>>
    /\ UNCHANGED <<mgrOp, mgrName, mgrInternal, listing>>
    /\ UNCHANGED notManager

\* GetClusterStatus, lines 177-200: one round of the loop over the lines
StatusInspect ==
    /\ mpc = "inspect"
    /\ lineIdx <= Len(listing)
    /\ LET nodeName == TrimSpace(listing[lineIdx])
       IN  IF nodeName = << >>
           THEN UNCHANGED <<statusNodes, mgrCalls>>
           ELSE \E ok \in BOOLEAN :
                \E out \in (IF ok THEN InspectOutputs ELSE FailureOutputs) :
                   /\ mgrCalls' = Append(mgrCalls,
                         RunRecord(RuntimeBin(mgrRuntime), InspectArgs(nodeName), ok, out))
                   /\ statusNodes' = Append(statusNodes,
                         [Name |-> nodeName, Role |-> RoleOf(nodeName),
                          Status |-> IF ok THEN TrimSpaceText(out) ELSE << <<"unknown">> >>])
    /\ lineIdx' = lineIdx + 1
    /\ UNCHANGED <<mgrOp, mgrName, mgrInternal, listing, mgrRet, mpc>>
    /\ UNCHANGED notManager

\* GetClusterStatus, line 202: return status, nil
StatusReturn ==
    /\ mpc = "inspect"
    /\ lineIdx > Len(listing)
    /\ mgrRet' = << [value |-> << [Name |-> mgrName, Nodes |-> statusNodes] >>,
                     err |-> << >>] >>
    /\ mpc' = "done"
    /\ UNCHANGED <<mgrOp, mgrName, mgrInternal, listing, lineIdx, statusNodes, mgrCalls>>
    /\ UNCHANGED notManager

ManagerNext ==
    \/ DeleteCluster
    \/ ListClusters
    \/ GetKubeconfig
    \/ GetClusterNodes
    \/ ExecOnNodeCall
    \/ StatusList
    \/ StatusInspect
    \/ StatusReturn

\* one run follows either CreateCluster calls or one of the other operations
LifecycleInit == CreateInit \/ ManagerInit

LifecycleNext == CreateNext \/ ManagerNext

SpecLifecycle == LifecycleInit /\ [][LifecycleNext]_vars

\* ------------------------------------------------------------------ claims: Manager

\* the last m.runner.Run invocation of the operation
LastCall == mgrCalls[Len(mgrCalls)]

\* the operation has returned the failure of an external command as its error
ReturnedCommandFailure ==
    /\ mgrRet # << >> /\ mgrRet[1].err # << >>
    /\ mgrCalls # << >> /\ ~LastCall.ok

\* C12: every failure of a wrapped external command that an operation of the Manager
\* returns as an error (create, delete, list, get-kubeconfig, the node listing of
\* status, exec-on-node, the node enumeration before mirror provisioning) carries the
\* command's captured combined output in the returned error.
C12_ErrorsCarryOutput ==
    /\ ReturnedCommandFailure => mgrRet[1].err[1].output = LastCall.out
    /\ \A c \in Calls :
          createRet[c].err = "kind create cluster failed" =>
              createRet[c].errOutput = createRet[c].out

\* the failing case of C12: GetClusterNodes has returned the failure of "kind get nodes",
\* the command had printed a message, and the error does not hold it
C12_NodesErrorWithoutOutput ==
    /\ mgrOp = "GetClusterNodes" /\ ReturnedCommandFailure
    /\ LastCall.out # << >>
    /\ mgrRet[1].err[1].output = << >>

\* every operation but GetClusterNodes does carry the output
C12_OthersCarryOutput ==
    (ReturnedCommandFailure /\ mgrOp # "GetClusterNodes") =>
        mgrRet[1].err[1].output = LastCall.out

\* ------------------------------------------------------------------ os.go, detect.go

\* DetectOS
DetectOS(os) ==
    [OS |-> os, Arch |-> "amd64",
     Platform |-> CASE os = "darwin" -> "macOS"
                    [] os = "linux" -> "Linux"
                    [] os = "windows" -> "Windows"
                    [] OTHER -> os,
     PlatformNote |-> CASE os = "darwin" -> "Containers run in a VM."
                        [] os = "linux" -> "Native container support."
                        [] os = "windows" -> "Containers typically run in WSL2 or Hyper-V."
                        [] OTHER -> "Unsupported platform"]

\* strings.ToLower on one token
LowerToken(tok) ==
    CASE tok = "Docker Desktop" -> "docker desktop"
      [] tok = "DOCKER DESKTOP" -> "docker desktop"
      [] tok = "Colima" -> "colima"
      [] tok = ".Colima" -> ".colima"
      [] tok = "Rancher-Desktop" -> "rancher-desktop"
      [] tok = "Microsoft" -> "microsoft"
      [] tok = "WSL2" -> "wsl2"
      [] OTHER -> tok

\* strings.ToLower on a token string
ToLower(s) == [i \in DOMAIN s |-> LowerToken(s[i])]

\* the signatures the detection looks for that occur inside one token
SignaturesIn(tok) ==
    CASE tok = "docker desktop" -> {"docker desktop"}
      [] tok = "colima" -> {"colima", "lima"}
      [] tok = "rancher-desktop" -> {"rancher"}
      [] tok = "lima-default" -> {"lima"}
      [] tok = ".colima" -> {".colima", "colima", "lima"}
      [] tok = ".lima" -> {".lima", "lima"}
      [] tok = ".rd" -> {".rd"}
      [] tok = "microsoft" -> {"microsoft"}
      [] tok = "wsl2" -> {"wsl"}
      [] OTHER -> {}

\* strings.Contains(s, sig) for a signature sig
ContainsSig(s, sig) == \E i \in DOMAIN s : sig \in SignaturesIn(s[i])

\* isWSL
isWSL ==
    IF procVersion = << >> THEN FALSE
    ELSE LET lower == ToLower(procVersion[1])
         IN  ContainsSig(lower, "microsoft") \/ ContainsSig(lower, "wsl")

\* the candidate socket paths of detectDockerSocket, in order
SocketCandidates(os) ==
    CASE os = "darwin" ->
            << HomeDir \o <<".colima", "/default/docker.sock">>,
               HomeDir \o <<".docker", "/run/docker.sock">>,
               HomeDir \o <<".rd", "/docker.sock">>,
               <<"/var/run/docker.sock">> >>
      [] os = "linux" ->
            (IF xdgRuntimeDir # << >> THEN << xdgRuntimeDir \o <<"docker.sock">> >> ELSE << >>)
            \o << <<"/var/run/docker.sock">>, HomeDir \o <<".docker", "/run/docker.sock">> >>
      [] OTHER -> << >>

\* the first candidate os.Stat finds, <<>> when there is none
RECURSIVE FirstExisting(_)
FirstExisting(cands) ==
    IF cands = << >> THEN << >>
    ELSE IF Head(cands) \in sockets THEN << Head(cands) >>
    ELSE FirstExisting(Tail(cands))

\* detectDockerSocket
detectDockerSocket(os) ==
    IF dockerHost # << >>
    THEN (IF HasPrefix(dockerHost, "unix://") THEN Tail(dockerHost) ELSE dockerHost)
    ELSE IF os = "windows" THEN <<"\\\\.\\pipe\\docker_engine">>
    ELSE IF FirstExisting(SocketCandidates(os)) # << >>
         THEN FirstExisting(SocketCandidates(os))[1]
    ELSE <<"/var/run/docker.sock">>

\* mutant of detectDockerBackend: a linux host is native whatever its kernel says
detectDockerBackend_NoWSL(di, osInfo) ==
    LET osField    == ToLower(di.OperatingSystem)
        nameField  == ToLower(di.Name)
        socketPath == detectDockerSocket(osInfo.OS)
    IN  IF ContainsSig(osField, "docker desktop") THEN "docker-desktop"
        ELSE IF ContainsSig(osField, "colima") \/ ContainsSig(nameField, "colima")
             THEN "colima"
        ELSE IF ContainsSig(nameField, "rancher") THEN "rancher-desktop"
        ELSE IF ContainsSig(nameField, "lima") THEN "lima"
        ELSE IF ContainsSig(socketPath, ".colima") THEN "colima"
        ELSE IF ContainsSig(socketPath, ".lima") THEN "lima"
        ELSE IF ContainsSig(socketPath, ".rd") THEN "rancher-desktop"
        ELSE IF osInfo.OS = "linux" THEN "native"
        ELSE "docker-desktop"

\* mutant of detectDockerBackend: the lima signature is looked for before colima
detectDockerBackend_LimaFirst(di, osInfo) ==
    LET osField    == ToLower(di.OperatingSystem)
        nameField  == ToLower(di.Name)
        socketPath == detectDockerSocket(osInfo.OS)
    IN  IF ContainsSig(osField, "docker desktop") THEN "docker-desktop"
        ELSE IF ContainsSig(nameField, "lima") THEN "lima"
        ELSE IF ContainsSig(osField, "colima") \/ ContainsSig(nameField, "colima")
             THEN "colima"
        ELSE IF ContainsSig(nameField, "rancher") THEN "rancher-desktop"
        ELSE IF ContainsSig(socketPath, ".colima") THEN "colima"
        ELSE IF ContainsSig(socketPath, ".lima") THEN "lima"
        ELSE IF ContainsSig(socketPath, ".rd") THEN "rancher-desktop"
        ELSE IF osInfo.OS = "linux" /\ isWSL THEN "wsl"
        ELSE IF osInfo.OS = "linux" THEN "native"
        ELSE "docker-desktop"

\* detectDockerBackend
detectDockerBackend(di, osInfo) ==
    LET osField    == ToLower(di.OperatingSystem)
        nameField  == ToLower(di.Name)
        socketPath == detectDockerSocket(osInfo.OS)
    IN  IF ContainsSig(osField, "docker desktop") THEN "docker-desktop"
        ELSE IF ContainsSig(osField, "colima") \/ ContainsSig(nameField, "colima")
             THEN "colima"
        ELSE IF ContainsSig(nameField, "rancher") THEN "rancher-desktop"
        ELSE IF ContainsSig(nameField, "lima") THEN "lima"
        ELSE IF ContainsSig(socketPath, ".colima") THEN "colima"
        ELSE IF ContainsSig(socketPath, ".lima") THEN "lima"
        ELSE IF ContainsSig(socketPath, ".rd") THEN "rancher-desktop"
        ELSE IF osInfo.OS = "linux" /\ isWSL THEN "wsl"
        ELSE IF osInfo.OS = "linux" THEN "native"
        ELSE "docker-desktop"

\* mutant of detectPodmanBackend: the kernel signature is not looked at
detectPodmanBackend_NoWSL(osInfo) ==
    CASE osInfo.OS \in {"darwin", "windows"} -> "podman-machine"
      [] osInfo.OS = "linux" -> "native"
      [] OTHER -> "unknown"

\* detectPodmanBackend
detectPodmanBackend(osInfo) ==
    CASE osInfo.OS \in {"darwin", "windows"} -> "podman-machine"
      [] osInfo.OS = "linux" -> (IF isWSL THEN "wsl" ELSE "native")
      [] OTHER -> "unknown"

\* Detect, lines 108-113: the result before any probe
UnknownRuntime(osInfo) ==
    [Runtime |-> "unknown", Backend |-> "unknown", Version |-> "", SocketPath |-> << >>,
     OS |-> osInfo, Available |-> FALSE, Error |-> ""]

\* detectDocker: [info, err]
detectDocker(out, osInfo) ==
    LET info == [UnknownRuntime(osInfo) EXCEPT !.Runtime = "docker", !.Backend = "",
                                               !.Available = TRUE]
    IN  IF ~out.ok THEN [info |-> info, err |-> "docker info failed"]
        ELSE IF ~out.valid THEN [info |-> info, err |-> "parsing docker info"]
        ELSE [info |-> [info EXCEPT !.Version = out.ServerVersion,
                                    !.Backend = detectDockerBackend(out, osInfo),
                                    !.SocketPath = detectDockerSocket(osInfo.OS)],
              err |-> ""]

\* detectPodman: [info, err]
detectPodman(out, osInfo) ==
    LET info == [UnknownRuntime(osInfo) EXCEPT !.Runtime = "podman", !.Backend = "",
                                               !.Available = TRUE]
    IN  IF ~out.ok THEN [info |-> info, err |-> "podman info failed"]
        ELSE IF ~out.valid THEN [info |-> info, err |-> "parsing podman info"]
        ELSE [info |-> [info EXCEPT !.Version = out.Version,
                                    !.SocketPath = out.SocketPath,
                                    !.Backend = detectPodmanBackend(osInfo)],
              err |-> ""]

\* ------------------------------------------------------------------ inputs: Detect

HostSystems == {"linux", "darwin", "windows", "freebsd"}

\* the runner's results for "docker info": a failure, output that is no JSON
\* object, and payloads with and without backend signatures
DockerInfoOutputs ==
    { FailedDockerInfo,
      [FailedDockerInfo EXCEPT !.ok = TRUE],
      [ok |-> TRUE, valid |-> TRUE, ServerVersion |-> "27.0.3",
       OperatingSystem |-> <<"Docker Desktop">>, Name |-> <<"docker-desktop">>],
      [ok |-> TRUE, valid |-> TRUE, ServerVersion |-> "27.0.3",
       OperatingSystem |-> <<"Docker Desktop">>, Name |-> <<"colima">>],
      [ok |-> TRUE, valid |-> TRUE, ServerVersion |-> "24.0.7",
       OperatingSystem |-> <<"Ubuntu 22.04">>, Name |-> <<"Colima">>],
      [ok |-> TRUE, valid |-> TRUE, ServerVersion |-> "24.0.7",
       OperatingSystem |-> <<"Alpine Linux">>, Name |-> <<"lima-default">>],
      [ok |-> TRUE, valid |-> TRUE, ServerVersion |-> "24.0.7",
       OperatingSystem |-> <<"Alpine Linux">>, Name |-> <<"Rancher-Desktop">>],
      [ok |-> TRUE, valid |-> TRUE, ServerVersion |-> "26.1.0",
       OperatingSystem |-> <<"Ubuntu 22.04">>, Name |-> <<"buildhost">>] }

PodmanInfoOutputs ==
    { FailedPodmanInfo,
      [FailedPodmanInfo EXCEPT !.ok = TRUE],
      [ok |-> TRUE, valid |-> TRUE, Version |-> "4.9.0", SocketPath |-> << >>],
      [ok |-> TRUE, valid |-> TRUE, Version |-> "5.0.1",
       SocketPath |-> <<"/run/user/1000/", "podman/podman.sock">>] }

DockerHosts ==
    { << >>,
      <<"unix://", "/home/u/", ".lima", "/docker/sock/docker.sock">>,
      <<"unix://", "/home/u/", ".Colima", "/default/docker.sock">>,
      <<"tcp://", "localhost:2375">> }

SocketSets ==
    { {},
      { <<"/var/run/docker.sock">> },
      { HomeDir \o <<".colima", "/default/docker.sock">>, <<"/var/run/docker.sock">> },
      { HomeDir \o <<".rd", "/docker.sock">> },
      { <<"/run/user/1000/", "docker.sock">> } }

ProcVersions ==
    { << >>,
      << <<"Linux version 5.15 ", "Microsoft", "-standard-", "WSL2">> >>,
      << <<"Linux version 6.1 ", "generic">> >> }

\* ------------------------------------------------------------------ detect.go: Detect

DetectInit ==
    /\ hostOS \in HostSystems
    /\ onPath \in SUBSET {"docker", "podman"}
    /\ dockerInfoOut \in DockerInfoOutputs
    /\ podmanInfoOut \in PodmanInfoOutputs
    /\ dockerHost \in DockerHosts
    /\ xdgRuntimeDir \in { << >>, <<"/run/user/1000/">> }
    /\ sockets \in SocketSets
    /\ procVersion \in ProcVersions
    /\ detCalls = << >>
    /\ detRet = << >>
    /\ dpc = "lookDocker"
    /\ networkAdvice = << >>
    /\ ApplyIdle
    /\ CredIdle
    /\ ConfigIdle
    /\ CreateIdle
    /\ ManagerIdle

\* Detect, line 129: no runtime has answered
NoRuntime ==
    [UnknownRuntime(DetectOS(hostOS)) EXCEPT
        !.Error = "no container runtime detected; install Docker or Podman"]

\* Detect, line 116: LookPath("docker")
DetectLookDocker ==
    /\ dpc = "lookDocker"
    /\ detCalls' = Append(detCalls, [fn |-> "LookPath", bin |-> "docker"])
    /\ dpc' = IF "docker" \in onPath THEN "dockerInfo" ELSE "lookPodman"
    /\ UNCHANGED <<hostOS, onPath, dockerInfoOut, podmanInfoOut, dockerHost, xdgRuntimeDir,
                   sockets, procVersion, networkAdvice, detRet>>
    /\ UNCHANGED notDetect

\* mutant of DetectDockerInfo: a docker probe that fails ends the detection
DetectDockerInfo_Final ==
    /\ dpc = "dockerInfo"
    /\ detCalls' = Append(detCalls, [fn |-> "Run", bin |-> "docker"])
    /\ LET r == detectDocker(dockerInfoOut, DetectOS(hostOS))
       IN  /\ detRet' = IF r.err = "" THEN << r.info >> ELSE << NoRuntime >>
           /\ dpc' = "done"
    /\ UNCHANGED <<hostOS, onPath, dockerInfoOut, podmanInfoOut, dockerHost, xdgRuntimeDir,
                   sockets, procVersion, networkAdvice>>
    /\ UNCHANGED notDetect

\* Detect, lines 117-119: detectDocker; its result is returned when it has no error
DetectDockerInfo ==
    /\ dpc = "dockerInfo"
    /\ detCalls' = Append(detCalls, [fn |-> "Run", bin |-> "docker"])
    /\ LET r == detectDocker(dockerInfoOut, DetectOS(hostOS))
       IN  IF r.err = ""
           THEN /\ detRet' = << r.info >>
                /\ dpc' = "done"
           ELSE /\ dpc' = "lookPodman"
                /\ UNCHANGED detRet
    /\ UNCHANGED <<hostOS, onPath, dockerInfoOut, podmanInfoOut, dockerHost, xdgRuntimeDir,
                   sockets, procVersion, networkAdvice>>
    /\ UNCHANGED notDetect

\* Detect, lines 123, 129-130: LookPath("podman"); without podman nothing is left to try
DetectLookPodman ==
    /\ dpc = "lookPodman"
    /\ detCalls' = Append(detCalls, [fn |-> "LookPath", bin |-> "podman"])
    /\ IF "podman" \in onPath
       THEN /\ dpc' = "podmanInfo"
            /\ UNCHANGED detRet
       ELSE /\ detRet' = << NoRuntime >>
            /\ dpc' = "done"
    /\ UNCHANGED <<hostOS, onPath, dockerInfoOut, podmanInfoOut, dockerHost, xdgRuntimeDir,
                   sockets, procVersion, networkAdvice>>
    /\ UNCHANGED notDetect

\* Detect, lines 124-130: detectPodman; its result, or the unavailable result
DetectPodmanInfo ==
    /\ dpc = "podmanInfo"
    /\ detCalls' = Append(detCalls, [fn |-> "Run", bin |-> "podman"])
    /\ LET r == detectPodman(podmanInfoOut, DetectOS(hostOS))
       IN  detRet' = IF r.err = "" THEN << r.info >> ELSE << NoRuntime >>
    /\ dpc' = "done"
    /\ UNCHANGED <<hostOS, onPath, dockerInfoOut, podmanInfoOut, dockerHost, xdgRuntimeDir,
                   sockets, procVersion, networkAdvice>>
    /\ UNCHANGED notDetect

\* mutant of DetectNetworkConfig: the native backend gets the wildcard address on
\* every host
DetectNetworkConfig_NativeAnywhere(ri) ==
    [ListenAddress        |-> IF ri.Backend = "native" THEN "0.0.0.0" ELSE "127.0.0.1",
     SupportsPortMapping  |-> TRUE,
     RequiresExtraConfig  |-> ri.Backend = "podman-machine" /\ ri.OS.OS \in {"darwin", "windows"},
     Notes                |-> ri.Backend,
     RecommendedPortRange |-> "30000-32767"]

\* DetectNetworkConfig (network.go); Notes names the text chosen, "" when none is
DetectNetworkConfig(ri) ==
    [ListenAddress        |-> IF ri.Backend = "native" /\ ri.OS.OS = "linux"
                              THEN "0.0.0.0" ELSE "127.0.0.1",
     SupportsPortMapping  |-> TRUE,
     RequiresExtraConfig  |-> ri.Backend = "podman-machine" /\ ri.OS.OS \in {"darwin", "windows"},
     Notes                |-> CASE ri.Backend \in {"docker-desktop", "colima", "wsl",
                                                   "podman-machine", "rancher-desktop",
                                                   "lima"} -> ri.Backend
                                [] ri.Backend = "native" ->
                                      (IF ri.OS.OS = "linux" THEN "native" ELSE "")
                                [] OTHER -> "unknown",
     RecommendedPortRange |-> "30000-32767"]

\* handleDetectEnvironment: the advice for the detected runtime
HandleDetectEnvironment ==
    /\ dpc = "done"
    /\ networkAdvice' = << DetectNetworkConfig(detRet[1]) >>
    /\ dpc' = "advised"
    /\ UNCHANGED <<hostOS, onPath, dockerInfoOut, podmanInfoOut, dockerHost, xdgRuntimeDir,
                   sockets, procVersion, detCalls, detRet>>
    /\ UNCHANGED notDetect

DetectNext ==
    \/ DetectLookDocker
    \/ DetectDockerInfo
    \/ DetectLookPodman
    \/ DetectPodmanInfo
    \/ HandleDetectEnvironment

SpecDetect == DetectInit /\ [][DetectNext]_vars

\* ------------------------------------------------------------------ claims: Detect

\* the binary is on the search path and its info call succeeds and parses
DockerAnswers == "docker" \in onPath /\ dockerInfoOut.ok /\ dockerInfoOut.valid
PodmanAnswers == "podman" \in onPath /\ podmanInfoOut.ok /\ podmanInfoOut.valid

\* the probes of one binary in the calls made so far
ProbesOf(bin) == {i \in DOMAIN detCalls : detCalls[i].bin = bin}

\* C13: Detect tries docker first and podman second: it returns a docker result when
\* docker is on the search path and its info call succeeds and parses; otherwise a
\* podman result when podman is on the path and its info call succeeds and parses;
\* otherwise runtime unknown, backend unknown, not available and a non-empty message.
\* A failed docker info call, with docker on the path, does not prevent the podman probe.
C13_DockerThenPodman ==
    /\ \A i \in ProbesOf("docker") : \A j \in ProbesOf("podman") : i < j
    /\ detCalls # << >> => detCalls[1] = [fn |-> "LookPath", bin |-> "docker"]
    /\ detRet # << >> =>
          LET ri == detRet[1]
          IN  /\ DockerAnswers =>
                    (ri.Runtime = "docker" /\ ri.Available /\ ProbesOf("podman") = {})
              /\ (~DockerAnswers /\ PodmanAnswers) => (ri.Runtime = "podman" /\ ri.Available)
              /\ (~DockerAnswers /\ ~PodmanAnswers) =>
                    /\ ri.Runtime = "unknown" /\ ri.Backend = "unknown"
                    /\ ~ri.Available /\ ri.Error # ""
              /\ ~DockerAnswers => [fn |-> "LookPath", bin |-> "podman"] \in Range(detCalls)
              /\ (~DockerAnswers /\ "podman" \in onPath) =>
                    [fn |-> "Run", bin |-> "podman"] \in Range(detCalls)

\* C13 witness: docker is on the path and its info call fails, podman answers
C13_Witness ==
    /\ detRet # << >> /\ detRet[1].Runtime = "podman"
    /\ "docker" \in onPath /\ ~dockerInfoOut.ok
    /\ [fn |-> "Run", bin |-> "docker"] \in Range(detCalls)

\* ------------------------------------------------------------------ claims: runtime selection

\* the argument vectors of every "kind" invocation made so far
KindInvocations ==
    {mgrCalls[i].args : i \in {j \in DOMAIN mgrCalls : mgrCalls[j].bin = "kind"}}
    \cup {runnerCalls[i].args : i \in DOMAIN runnerCalls}

\* the invocations of the container runtime CLI made so far
RuntimeInvocations == {i \in DOMAIN mgrCalls : mgrCalls[i].bin # "kind"}

KindSubcommands == {"create", "delete", "get"}

\* C14: every invocation of the kind CLI made by a Manager operation begins with
\* "--runtime", "podman" before the subcommand when the runtime is podman and holds no
\* such flag when the runtime is docker or unknown; the inspect and exec calls use the
\* podman binary exactly when the runtime is podman.
C14_RuntimeSelection ==
    /\ \A args \in KindInvocations :
          IF mgrRuntime = "podman"
          THEN /\ Len(args) >= 3
               /\ SubSeq(args, 1, 2) = <<"--runtime", "podman">>
               /\ args[3] \in KindSubcommands
               /\ ~Contains(SubSeq(args, 3, Len(args)), "--runtime")
          ELSE /\ args[1] \in KindSubcommands
               /\ ~Contains(args, "--runtime")
    /\ \A i \in RuntimeInvocations :
          /\ mgrCalls[i].args[1] \in {"inspect", "exec"}
          /\ mgrCalls[i].bin = (IF mgrRuntime = "podman" THEN "podman" ELSE "docker")
    /\ \A i \in DOMAIN runnerCalls : runnerCalls[i].bin = "kind"
    /\ \A i \in DOMAIN mgrCalls :
          mgrCalls[i].bin = "kind" <=> mgrCalls[i].args[1] \notin {"inspect", "exec"}

\* C14 witness: with podman, GetClusterStatus has listed and inspected two nodes
C14_Witness ==
    /\ mgrRuntime = "podman" /\ mgrOp = "GetClusterStatus"
    /\ mgrRet # << >> /\ mgrRet[1].err = << >>
    /\ Len(mgrCalls) = 3 /\ RuntimeInvocations = {2, 3}
    /\ mgrCalls[2].bin = "podman"

\* C14 witness for the node enumeration under podman
C14_NodesUnderPodman ==
    /\ mgrRuntime = "podman" /\ mgrOp = "GetClusterNodes" /\ mgrRet # << >>
    /\ mgrCalls[1].args[1] = "--runtime"

\* ------------------------------------------------------------------ claims: status and list

\* the kind invocation GetClusterStatus starts with, once made
ListingCall == mgrCalls[1]

\* the inspect invocations made so far
InspectCalls == {i \in DOMAIN mgrCalls : mgrCalls[i].args[1] = "inspect"}

StatusReturned == mgrOp = "GetClusterStatus" /\ mgrRet # << >>

\* C17: GetClusterStatus returns the not-found error and inspects no node when the
\* node listing is empty after trimming; it never returns a ClusterStatus with an
\* empty node list.
C17_EmptyListingIsNotFound ==
    /\ (mgrOp = "GetClusterStatus" /\ mgrCalls # << >> /\ ListingCall.ok
        /\ TrimSpaceText(ListingCall.out) = << >>) =>
          /\ InspectCalls = {}
          /\ mgrRet = << [value |-> << >>, err |-> NotFound] >>
    /\ (StatusReturned /\ mgrRet[1].value # << >>) =>
          /\ mgrRet[1].err = << >>
          /\ Len(mgrRet[1].value[1].Nodes) >= 1

\* C17 witness: the listing held blank lines only
C17_Witness ==
    /\ StatusReturned /\ mgrRet[1].err = NotFound
    /\ Len(mgrCalls) = 1 /\ ListingCall.ok /\ Len(ListingCall.out) = 2

\* the node names of a listing: its non-blank lines, trimmed, in order
ListedNames(out) == NonEmptyLines(out)

\* C18: in GetClusterStatus a failed inspect call for one node sets only that node's
\* state to "unknown": the call still succeeds, inspects every remaining node and
\* returns exactly one NodeStatus per listed node name in listing order, with role
\* control-plane when the name contains "control-plane" and worker otherwise.
C18_FailedInspectDegrades ==
    (StatusReturned /\ mgrCalls # << >> /\ ListingCall.ok
     /\ ListedNames(ListingCall.out) # << >>) =>
        LET names == ListedNames(ListingCall.out)
            ns    == mgrRet[1].value[1].Nodes
        IN  /\ mgrRet[1].err = << >>
            /\ Len(ns) = Len(names)
            /\ Len(mgrCalls) = Len(names) + 1
            /\ \A i \in DOMAIN names :
                  LET call == mgrCalls[i + 1]
                  IN  /\ ns[i].Name = names[i]
                      /\ ns[i].Role = (IF \E k \in DOMAIN names[i] :
                                             names[i][k] = "control-plane"
                                       THEN "control-plane" ELSE "worker")
                      /\ call.args = InspectArgs(names[i])
                      /\ ns[i].Status = (IF call.ok THEN TrimSpaceText(call.out)
                                         ELSE << <<"unknown">> >>)

\* C18 witness: the inspect of the first of two nodes failed, the second succeeded
C18_Witness ==
    /\ StatusReturned /\ mgrRet[1].err = << >>
    /\ Len(mgrCalls) = 3 /\ ~mgrCalls[2].ok /\ mgrCalls[3].ok
    /\ mgrRet[1].value[1].Nodes[1].Status = << <<"unknown">> >>
    /\ mgrRet[1].value[1].Nodes[2].Status = << <<"running">> >>
    /\ mgrRet[1].value[1].Nodes[1].Role = "control-plane"
    /\ mgrRet[1].value[1].Nodes[2].Role = "worker"

ListReturned == mgrOp = "ListClusters" /\ mgrRet # << >>

\* C19: ListClusters returns an empty list and no error when the CLI output, after
\* trimming, is empty or equals the line "No kind clusters found."; otherwise it
\* returns the trimmed non-empty lines of the output in order; it returns an error
\* only when the CLI invocation fails.
C19_ListClusters ==
    ListReturned =>
        LET call  == mgrCalls[1]
            lines == NonEmptyLines(call.out)
        IN  /\ mgrRet[1].err # << >> <=> ~call.ok
            /\ call.ok =>
                  IF lines = << >> \/ lines = << <<"No kind clusters found.">> >>
                  THEN mgrRet[1].value = << >>
                  ELSE mgrRet[1].value = lines

\* C19 witness: the output is the sentinel line between white space
C19_Witness ==
    /\ ListReturned /\ mgrRet[1].err = << >> /\ mgrRet[1].value = << >>
    /\ mgrCalls[1].out = << <<" ", "No kind clusters found.">>, <<" ">> >>

\* C19 witness: two clusters with white space around the names
C19_NamesWitness ==
    /\ ListReturned /\ mgrRet[1].value = << <<"prod">>, <<"dev">> >>

\* ------------------------------------------------------------------ claims: the generated mirror configuration

\* GenerateMirrorConfig has been called on the overrides of this run
MirrorConfigGenerated == apc # "generate"

\* a NodeCommand is the directory creation for a registry
IsMkdirFor(c, registry) ==
    /\ c.Command.argv = <<"mkdir", "-p">>
    /\ c.Command.path = <<"/etc/containerd/certs.d/", registry>>
    /\ c.Description.registry = registry

\* a NodeCommand is the write of hosts.toml for a registry
IsHostsWriteFor(c, registry) ==
    /\ c.Command.argv = <<"bash", "-c", "cat >">>
    /\ c.Command.path = <<"/etc/containerd/certs.d/", registry, "/hosts.toml">>
    /\ c.Description.registry = registry
    /\ c.Command.body # << >>

\* C20: GenerateMirrorConfig fails when the override list is empty; otherwise, for k
\* overrides, it emits exactly 2*k commands, where commands 2i-1 and 2i belong to the
\* i-th override and are, in this order, the directory creation and the write of the
\* host-configuration file for that registry, all with node selector "all"; and it
\* emits exactly one containerd config-path patch for every k >= 1.
C20_TwoCommandsPerOverride ==
    MirrorConfigGenerated =>
        LET g == GenerateMirrorConfig(overrides, << >>)
            k == Len(overrides)
        IN  /\ genErr = g.err
            /\ (k = 0) <=> (genErr # "")
            /\ (k = 0) => mirrorCfg = << >>
            /\ (k >= 1) =>
                  LET cmds == g.cfg[1].PostCreateCommands
                      held == mirrorCfg[1].PostCreateCommands
                  IN  /\ Len(cmds) = 2 * k /\ Len(held) = 2 * k
                      /\ \A i \in 1..k :
                            /\ IsMkdirFor(cmds[2 * i - 1], overrides[i].Original)
                            /\ IsHostsWriteFor(cmds[2 * i], overrides[i].Original)
                      /\ \A j \in 1..(2 * k) :
                            /\ cmds[j].NodeSelector = "all"
                            /\ held[j].Command = cmds[j].Command
                            /\ held[j].Description = cmds[j].Description
                      /\ g.cfg[1].ContainerdPatches = <<"config_path = /etc/containerd/certs.d">>
                      /\ mirrorCfg[1].ContainerdPatches = g.cfg[1].ContainerdPatches

\* C20 witness: two overrides of different registries gave four commands
C20_Witness ==
    /\ MirrorConfigGenerated /\ genErr = "" /\ Len(overrides) = 2
    /\ overrides[1].Original # overrides[2].Original
    /\ Len(mirrorCfg[1].PostCreateCommands) = 4

\* C20 witness: the empty override list is refused
C20_EmptyRefused ==
    /\ MirrorConfigGenerated /\ overrides = << >>
    /\ genErr = "at least one registry override is required"

\* ------------------------------------------------------------------ configure_registry_mirrors with credentials

\* the override lists of the tool calls followed here: none or one override
ToolOverrides == {ovs \in SeqsUpTo(OverrideValues, MaxOverrides) : Len(ovs) <= 1}

\* the credential files of the tool calls followed here
ToolFileStates == {Absent, Garbage, InlineFile, StoreFile, HelpersFile}

\* the environment of a docker host: DOCKER_CONFIG unset or set
ToolEnvironments ==
    {e \in Environments : EnvRead("docker", "linux", e) /\ e.DOCKER_CONFIG # <<"/home/u/", ".docker">>}

\* FindCredentials is about to run for a docker host
ToolCredInit ==
    /\ credRuntime = "docker"
    /\ goos = "linux"
    /\ env \in ToolEnvironments
    /\ fs \in [Range(pathStrings(candidatePaths(credRuntime, goos, env))) -> ToolFileStates]
    /\ credIdx = 1
    /\ examined = <<>>
    /\ credRet = <<>>
    /\ cpc = "loop"

\* handleConfigureRegistryMirrors is called: FindCredentials runs only when
\* include_credentials is set and the override list was accepted
MirrorToolInit ==
    /\ overrides \in ToolOverrides
    /\ nodeSelector = "all"
    /\ includeCredentials \in BOOLEAN
    /\ mirrorCredInfo = <<>>
    /\ mirrorCfg = <<>>
    /\ genErr = ""
    /\ nodesErr = ""
    /\ nodes = <<>>
    /\ targetNodes = <<>>
    /\ cmdIdx = 0
    /\ nodeIdx = 0
    /\ results = <<>>
    /\ applyRet = <<>>
    /\ execLog = <<>>
    /\ failCount = 0
    /\ apc = "generate"
    /\ IF includeCredentials /\ overrides # <<>> THEN ToolCredInit ELSE CredIdle
    /\ ConfigIdle
    /\ CreateIdle
    /\ ManagerIdle
    /\ DetectIdle

MirrorToolNext == CredNext \/ ApplyNext

SpecMirrorTool == MirrorToolInit /\ [][MirrorToolNext]_vars

\* ------------------------------------------------------------------ claims: credentials and mirrors

\* the mount GenerateMirrorConfig makes of a credential file
MountOf(info) ==
    [HostPath |-> info.FilePath, ContainerPath |-> info.MountPath, ReadOnly |-> TRUE]

\* GenerateMirrorConfig has returned a configuration
MirrorConfigReturned == apc # "generate" /\ genErr = ""

\* C21: GenerateMirrorConfig adds a read-only credential mount to the MirrorConfig if
\* and only if credentials are supplied and their InlineAuth flag is true; with no
\* credentials or helper-managed credentials the extra mount list is empty.
C21_MountIffInline ==
    MirrorConfigReturned =>
        LET mounts == mirrorCfg[1].ExtraMounts
        IN  IF mirrorCredInfo # <<>> /\ mirrorCredInfo[1].InlineAuth
            THEN /\ mounts = << MountOf(mirrorCredInfo[1]) >>
                 /\ mounts[1].ReadOnly
                 /\ mounts[1].HostPath \in DOMAIN fs
                 /\ fs[mounts[1].HostPath].credsStore = ""
                 /\ fs[mounts[1].HostPath].credHelpers = {}
            ELSE mounts = <<>>

\* C21 witness: inline credentials were found and mounted
C21_Witness ==
    /\ MirrorConfigReturned /\ includeCredentials
    /\ mirrorCredInfo # <<>> /\ mirrorCredInfo[1].InlineAuth
    /\ Len(mirrorCfg[1].ExtraMounts) = 1

\* C21 witness: credentials kept by a helper were found and not mounted
C21_HelperWitness ==
    /\ MirrorConfigReturned /\ includeCredentials
    /\ mirrorCredInfo # <<>> /\ ~mirrorCredInfo[1].InlineAuth
    /\ mirrorCfg[1].ExtraMounts = <<>>

\* C21 witness: discovery failed and nothing is mounted
C21_NoneWitness ==
    /\ MirrorConfigReturned /\ includeCredentials
    /\ mirrorCredInfo = <<>>
    /\ mirrorCfg[1].ExtraMounts = <<>>

\* the calls the same tool call makes on the nodes without include_credentials:
\* the commands generated from the overrides alone, then the restarts
CallsWithoutCredentials ==
    OwedCommandCalls(GenerateMirrorConfig(overrides, <<>>).cfg[1].PostCreateCommands, nodes)
    \o [i \in DOMAIN nodes |-> ExecCall(nodes[i], RestartCommand)]

\* the calls made on the nodes, in order
CallsMade == [i \in DOMAIN execLog |-> execLog[i].call]

\* inline credentials were discovered for a call with include_credentials
InlineCredentialsIncluded ==
    includeCredentials /\ mirrorCredInfo # <<>> /\ mirrorCredInfo[1].InlineAuth

\* C22: configure_registry_mirrors called with include_credentials = true, when inline
\* host credentials are discoverable, mounts those credentials into the cluster's
\* nodes: the actions performed on the nodes differ from those of the same call with
\* include_credentials = false.
C22_CredentialsChangeNodeActions ==
    (ApplyReturnedOK /\ InlineCredentialsIncluded /\ nodes # <<>>) =>
        CallsMade # CallsWithoutCredentials

\* C22, the failing case: the credentials were discovered and put into the
\* MirrorConfig, every command succeeded, and the nodes saw the calls of a run
\* without credentials
C22_MountNeverApplied ==
    /\ ApplyReturnedOK /\ InlineCredentialsIncluded /\ nodes # <<>>
    /\ mirrorCfg[1].ExtraMounts = << MountOf(mirrorCredInfo[1]) >>
    /\ \A i \in DOMAIN execLog : execLog[i].ok
    /\ CallsMade = CallsWithoutCredentials

\* what the code does instead: the calls on the nodes never depend on the credentials
C22_ActionsIgnoreCredentials ==
    ApplyReturnedOK => CallsMade = CallsWithoutCredentials

\* ------------------------------------------------------------------ claims: hosts.toml

\* the hosts.toml content written for the i-th override
HostsTomlOf(i) == mirrorCfg[1].PostCreateCommands[2 * i].Command.body

\* the values of the lines of a hosts.toml content that carry a key
LinesWithKey(body, key) == {body[j][2] : j \in {n \in DOMAIN body : body[n][1] = key}}

\* C23: the hosts.toml content of an override contains the line skip_verify = true if
\* and only if the effective mirror URL has the plain http:// scheme; a mirror given
\* without a scheme prefix is treated as http://; an https:// mirror never gets
\* skip_verify; and the server line is https://registry-1.docker.io exactly when the
\* source registry is docker.io, otherwise https:// followed by the source hostname.
C23_HostsToml ==
    MirrorConfigReturned =>
        \A i \in DOMAIN overrides :
            LET body   == HostsTomlOf(i)
                mirror == overrides[i].Mirror
                skip   == LinesWithKey(body, "skip_verify")
                host   == LinesWithKey(body, "host")
                server == LinesWithKey(body, "server")
            IN  /\ Cardinality(host) = 1 /\ Cardinality(server) = 1
                /\ skip \subseteq { <<"true">> }
                /\ \A h \in host : (skip # {}) <=> (h[1] = "http://")
                /\ (mirror[1] = "https://") => (skip = {} /\ host = {mirror})
                /\ (mirror[1] = "http://") => (skip # {} /\ host = {mirror})
                /\ (mirror[1] \notin {"http://", "https://"}) =>
                      (skip # {} /\ host = { <<"http://">> \o mirror })
                /\ (overrides[i].Original = "docker.io") <=>
                      (server = { <<"https://", "registry-1.docker.io">> })
                /\ (overrides[i].Original # "docker.io") =>
                      (server = { <<"https://", overrides[i].Original>> })

\* C23 witness: a mirror without scheme for docker.io and an https mirror for another
\* registry were written
C23_Witness ==
    /\ MirrorConfigReturned /\ Len(overrides) = 2
    /\ overrides[1].Mirror = <<"proxy:5002">> /\ overrides[1].Original = "docker.io"
    /\ overrides[2].Mirror[1] = "https://" /\ overrides[2].Original = "ghcr.io"
    /\ LinesWithKey(HostsTomlOf(1), "skip_verify") # {}
    /\ LinesWithKey(HostsTomlOf(2), "skip_verify") = {}

\* ------------------------------------------------------------------ DetectNetworkConfig on any RuntimeInfo

Backends == {"docker-desktop", "colima", "wsl", "podman-machine", "native",
             "rancher-desktop", "lima", "unknown"}

\* every RuntimeInfo a caller can hand to DetectNetworkConfig
RuntimeInfos ==
    {[UnknownRuntime(DetectOS(os)) EXCEPT !.Runtime = rt, !.Backend = b, !.Available = av] :
        os \in HostSystems, rt \in Runtimes, b \in Backends, av \in BOOLEAN}

\* DetectNetworkConfig is called on a RuntimeInfo that no detection of this run made
AdviseInit ==
    /\ hostOS \in HostSystems
    /\ onPath = {} /\ dockerInfoOut = FailedDockerInfo /\ podmanInfoOut = FailedPodmanInfo
    /\ dockerHost = << >> /\ xdgRuntimeDir = << >> /\ sockets = {} /\ procVersion = << >>
    /\ detCalls = << >>
    /\ detRet \in {<<ri>> : ri \in {r \in RuntimeInfos : r.OS.OS = hostOS}}
    /\ dpc = "done"
    /\ networkAdvice = << >>
    /\ ApplyIdle
    /\ CredIdle
    /\ ConfigIdle
    /\ CreateIdle
    /\ ManagerIdle

AdviseNext == HandleDetectEnvironment

SpecAdvise == AdviseInit /\ [][AdviseNext]_vars

\* ------------------------------------------------------------------ claims: network advice

Advised == dpc = "advised"

\* C24 as stated: the listen address is 0.0.0.0 exactly when the backend is native and
\* the host OS is linux and 127.0.0.1 for every other input; the extra-config flag is
\* true exactly when the backend is podman-machine and the host OS is not linux;
\* port-mapping support is true for every input.
C24_AdviceByBackendAndOS ==
    Advised =>
        LET ri == detRet[1]
            a  == networkAdvice[1]
        IN  /\ a.ListenAddress = (IF ri.Backend = "native" /\ ri.OS.OS = "linux"
                                  THEN "0.0.0.0" ELSE "127.0.0.1")
            /\ a.RequiresExtraConfig <=> (ri.Backend = "podman-machine" /\ ri.OS.OS # "linux")
            /\ a.SupportsPortMapping

\* C24 amended: as stated, except that the extra-config flag is true exactly when the
\* backend is podman-machine and the host OS is darwin or windows.
C24_AdviceExtraConfigOnDarwinWindows ==
    /\ dpc = "done" => ENABLED HandleDetectEnvironment
    /\ Advised =>
        LET ri == detRet[1]
            a  == networkAdvice[1]
        IN  /\ networkAdvice = << DetectNetworkConfig(ri) >>
            /\ (ri.Backend = "native" /\ ri.OS.OS = "linux") => a.ListenAddress = "0.0.0.0"
            /\ ~(ri.Backend = "native" /\ ri.OS.OS = "linux") => a.ListenAddress = "127.0.0.1"
            /\ a.RequiresExtraConfig <=>
                  (ri.Backend = "podman-machine" /\ ri.OS.OS \in {"darwin", "windows"})
            /\ a.SupportsPortMapping
            /\ \A r \in RuntimeInfos :
                  (r.Backend = ri.Backend /\ r.OS.OS = ri.OS.OS) =>
                      DetectNetworkConfig(r) = DetectNetworkConfig(ri)

\* C24 witness: the native backend on a host that is not linux keeps the loopback
\* address
C24_Witness ==
    /\ Advised /\ detRet[1].Backend = "native" /\ detRet[1].OS.OS = "darwin"
    /\ networkAdvice[1].ListenAddress = "127.0.0.1"

\* C24 witness: podman-machine on a host that is neither linux, darwin nor windows
C24_OtherHostWitness ==
    /\ Advised /\ detRet[1].Backend = "podman-machine" /\ detRet[1].OS.OS = "freebsd"
    /\ ~networkAdvice[1].RequiresExtraConfig

\* ------------------------------------------------------------------ claims: backends

\* Detect has returned a podman result
PodmanDetected == detRet # << >> /\ detRet[1].Runtime = "podman"

\* Detect has returned a docker result
DockerDetected == detRet # << >> /\ detRet[1].Runtime = "docker"

\* /proc/version can be read and names Microsoft or WSL, in any case of letters
KernelSignature ==
    /\ procVersion # << >>
    /\ \E i \in DOMAIN procVersion[1] :
          procVersion[1][i] \in {"Microsoft", "microsoft", "WSL2", "wsl2"}

\* C25 as stated: when podman is detected, the backend is podman-machine for every
\* host OS other than linux, and on linux it is wsl when the kernel-signature check
\* is positive and native otherwise.
C25_PodmanBackend ==
    PodmanDetected =>
        detRet[1].Backend = (IF hostOS # "linux" THEN "podman-machine"
                             ELSE IF KernelSignature THEN "wsl" ELSE "native")

\* C25 amended: when podman is detected, the backend is podman-machine on darwin and
\* windows, on linux it is wsl when the kernel-signature check is positive and native
\* otherwise, and on every other host OS it is unknown.
C25_PodmanBackendByHost ==
    PodmanDetected =>
        /\ detRet[1].OS.OS = hostOS
        /\ detRet[1].Backend =
              (CASE hostOS \in {"darwin", "windows"} -> "podman-machine"
                 [] hostOS = "linux" -> (IF KernelSignature THEN "wsl" ELSE "native")
                 [] OTHER -> "unknown")

\* C25 witness: podman on a linux host with the kernel signature
C25_Witness ==
    /\ PodmanDetected /\ hostOS = "linux" /\ KernelSignature
    /\ detRet[1].Backend = "wsl"

\* C25 witness: podman on a host that is neither linux, darwin nor windows
C25_OtherHostWitness ==
    /\ PodmanDetected /\ hostOS = "freebsd" /\ detRet[1].Backend = "unknown"

\* the tokens of an info field that carry a backend signature, in any case of letters
SignedTokens == {"Docker Desktop", "DOCKER DESKTOP", "docker desktop", "Colima", "colima",
                 "Rancher-Desktop", "rancher-desktop", "lima-default"}

\* the payload carries no backend signature in its OS-description and name fields
SignatureFree(di) ==
    /\ \A i \in DOMAIN di.OperatingSystem : di.OperatingSystem[i] \notin SignedTokens
    /\ \A i \in DOMAIN di.Name : di.Name[i] \notin SignedTokens

\* the docker socket path of the result holds one of the fragments, letter for letter
SocketFragment(path) == \E i \in DOMAIN path : path[i] \in {".colima", ".lima", ".rd"}

\* C26 as stated: for a docker info payload on a linux host that carries no backend
\* signature in its OS-description and name fields, Detect classifies the backend as
\* native and the network advice has listen address 0.0.0.0; when the kernel-signature
\* check is positive on linux, the backend is wsl.
C26_SignatureFreeLinux ==
    (DockerDetected /\ hostOS = "linux" /\ SignatureFree(dockerInfoOut)) =>
        IF KernelSignature
        THEN detRet[1].Backend = "wsl"
        ELSE /\ detRet[1].Backend = "native"
             /\ Advised => networkAdvice[1].ListenAddress = "0.0.0.0"

\* C26 amended: the same, for payloads whose docker socket path holds none of the
\* fragments .colima, .lima and .rd.
C26_SignatureFreeLinuxPlainSocket ==
    (DockerDetected /\ hostOS = "linux" /\ SignatureFree(dockerInfoOut)
     /\ ~SocketFragment(detRet[1].SocketPath)) =>
        IF KernelSignature
        THEN /\ detRet[1].Backend = "wsl"
             /\ Advised => networkAdvice[1].ListenAddress = "127.0.0.1"
        ELSE /\ detRet[1].Backend = "native"
             /\ Advised => networkAdvice[1].ListenAddress = "0.0.0.0"

\* C26 witness: a plain linux host was classified native and advised the wildcard
C26_Witness ==
    /\ DockerDetected /\ hostOS = "linux" /\ SignatureFree(dockerInfoOut)
    /\ ~KernelSignature /\ procVersion # << >>
    /\ Advised /\ detRet[1].Backend = "native"
    /\ networkAdvice[1].ListenAddress = "0.0.0.0"

\* C26 witness: the same payload under a WSL kernel
C26_WSLWitness ==
    /\ DockerDetected /\ hostOS = "linux" /\ SignatureFree(dockerInfoOut)
    /\ KernelSignature /\ Advised /\ detRet[1].Backend = "wsl"

\* C26 witness: the same payload with DOCKER_HOST under a .lima directory
C26_SocketHintWitness ==
    /\ DockerDetected /\ hostOS = "linux" /\ SignatureFree(dockerInfoOut)
    /\ SocketFragment(detRet[1].SocketPath) /\ detRet[1].Backend = "lima"

\* the signatures a field of the payload holds, whatever the case of its letters
FieldHas(field, sig) ==
    \E i \in DOMAIN field :
        CASE sig = "docker desktop" ->
                field[i] \in {"Docker Desktop", "DOCKER DESKTOP", "docker desktop"}
          [] sig = "colima" -> field[i] \in {"Colima", "colima"}
          [] sig = "rancher" -> field[i] \in {"Rancher-Desktop", "rancher-desktop"}
          [] sig = "lima" -> field[i] \in {"Colima", "colima", "lima-default"}
          [] OTHER -> FALSE

\* the socket path holds a fragment, letter for letter (".colima" holds "colima" only)
PathHas(path, frag) == \E i \in DOMAIN path : path[i] = frag

\* the socket path holds a fragment, whatever the case of its letters
PathHasAnyCase(path, frag) == \E i \in DOMAIN path : LowerToken(path[i]) = frag

\* the backend the priority order of the claim gives, for a test of the socket path
BackendByPriority(di, os, kernel, InPath(_, _), path) ==
    CASE FieldHas(di.OperatingSystem, "docker desktop") -> "docker-desktop"
      [] ~FieldHas(di.OperatingSystem, "docker desktop")
         /\ (FieldHas(di.OperatingSystem, "colima") \/ FieldHas(di.Name, "colima")) -> "colima"
      [] OTHER ->
            IF FieldHas(di.Name, "rancher") THEN "rancher-desktop"
            ELSE IF FieldHas(di.Name, "lima") THEN "lima"
            ELSE IF InPath(path, ".colima") THEN "colima"
            ELSE IF InPath(path, ".lima") THEN "lima"
            ELSE IF InPath(path, ".rd") THEN "rancher-desktop"
            ELSE IF os = "linux" /\ kernel THEN "wsl"
            ELSE IF os = "linux" THEN "native"
            ELSE "docker-desktop"

\* C27 as stated: docker backend classification evaluates its signatures
\* case-insensitively in a fixed priority order with a terminal default: desktop-app
\* signature in the OS description, then colima (OS description or name), then rancher
\* (name), then lima (name), then socket-path fragments (.colima, .lima, .rd), then WSL
\* on linux, then native on linux, else the desktop variant; a payload whose name
\* contains "colima" is never classified as lima, and a desktop-app signature wins
\* over every other signature present.
C27_PriorityOrderAnyCase ==
    DockerDetected =>
        /\ detRet[1].Backend =
              BackendByPriority(dockerInfoOut, hostOS, KernelSignature, PathHasAnyCase,
                                detRet[1].SocketPath)
        /\ FieldHas(dockerInfoOut.Name, "colima") => detRet[1].Backend # "lima"
        /\ FieldHas(dockerInfoOut.OperatingSystem, "docker desktop") =>
              detRet[1].Backend = "docker-desktop"

\* C27 amended: the same, with the signatures of the info payload evaluated
\* case-insensitively and the socket-path fragments matched letter for letter.
C27_PriorityOrder ==
    DockerDetected =>
        /\ detRet[1].Backend =
              BackendByPriority(dockerInfoOut, hostOS, KernelSignature, PathHas,
                                detRet[1].SocketPath)
        /\ FieldHas(dockerInfoOut.Name, "colima") => detRet[1].Backend # "lima"
        /\ FieldHas(dockerInfoOut.OperatingSystem, "docker desktop") =>
              detRet[1].Backend = "docker-desktop"

\* C27 witness: the desktop signature in the OS description won over a colima name
C27_Witness ==
    /\ DockerDetected
    /\ FieldHas(dockerInfoOut.OperatingSystem, "docker desktop")
    /\ FieldHas(dockerInfoOut.Name, "colima")
    /\ detRet[1].Backend = "docker-desktop"

\* C27 witness: a name in capitals that holds both "colima" and "lima" is colima
C27_ColimaWitness ==
    /\ DockerDetected /\ dockerInfoOut.Name = <<"Colima">>
    /\ detRet[1].Backend = "colima"

\* C27 witness: a socket path under ".Colima" is no hint
C27_CapitalPathWitness ==
    /\ DockerDetected /\ SignatureFree(dockerInfoOut)
    /\ PathHasAnyCase(detRet[1].SocketPath, ".colima")
    /\ detRet[1].Backend # "colima"

\* ------------------------------------------------------------------ mirror provisioning next to the Manager's operations

\* a run is one ApplyMirrorConfig call on a generated configuration of at most one
\* override, or one operation of the Manager
ProvisionInit ==
    \/ (ApplyInit /\ nodeSelector = "all" /\ Len(overrides) <= 1)
    \/ ManagerInit

ProvisionNext == ApplyNext \/ ManagerNext

SpecProvision == ProvisionInit /\ [][ProvisionNext]_vars

\* ------------------------------------------------------------------ claims: the empty node listing

\* the operation of the Manager got this output from a successful "kind get nodes"
ListedEmpty(op) ==
    /\ mgrOp = op /\ mgrRet # << >> /\ mgrCalls # << >>
    /\ mgrCalls[1].ok /\ TrimSpaceText(mgrCalls[1].out) = << >>

\* ApplyMirrorConfig enumerated the nodes without error and got none
AppliedToNoNodes ==
    /\ apc \notin {"generate", "getnodes"} /\ genErr = "" /\ nodesErr = "" /\ nodes = << >>

\* C28: when node enumeration succeeds but yields no nodes (empty CLI output),
\* ApplyMirrorConfig executes no command, returns an empty result list and reports no
\* error, whereas GetClusterStatus on the same CLI output fails with the not-found
\* error: the two operations disagree on whether an empty node listing is an error.
C28_EmptyListingDisagreement ==
    /\ \A out \in NodeOutputs : (ParseNodes(out) = << >>) <=> (TrimSpaceText(out) = << >>)
    /\ ListedEmpty("GetClusterNodes") => mgrRet = << [value |-> << >>, err |-> << >>] >>
    /\ ListedEmpty("GetClusterStatus") =>
          (mgrRet = << [value |-> << >>, err |-> NotFound] >> /\ Len(mgrCalls) = 1)
    /\ AppliedToNoNodes =>
          /\ execLog = << >> /\ results = << >>
          /\ apc = "done" => applyRet = << [results |-> << >>, err |-> ""] >>

\* C28 witness: provisioning of a cluster without nodes returned without error
C28_Witness ==
    /\ AppliedToNoNodes /\ apc = "done" /\ overrides # << >>
    /\ applyRet = << [results |-> << >>, err |-> ""] >>

\* C28 witness: the status of a cluster with the same listing is the not-found error
C28_StatusWitness ==
    /\ ListedEmpty("GetClusterStatus") /\ mgrCalls[1].out = << <<" ">> >>
    /\ mgrRet[1].err = NotFound

\* C28 witness: the enumeration the provisioning starts with returns no node, no error
C28_NodesWitness ==
    /\ ListedEmpty("GetClusterNodes") /\ mgrCalls[1].out = << <<" ">> >>
    /\ mgrRet[1].err = << >>

\* ------------------------------------------------------------------ claims: the order of provisioning

\* the provisioning calls made so far, without the restarts
ProvisioningCalls == SelectSeq(execLog, LAMBDA e : ~IsRestartCall(e))

\* a call creates the directory of a registry on a node
IsMkdirCall(e, node, registry) ==
    /\ e.call.node = node
    /\ e.call.cmd.argv = <<"mkdir", "-p">>
    /\ e.call.cmd.path = <<"/etc/containerd/certs.d/", registry>>

\* a call writes the hosts.toml of a registry on a node
IsWriteCall(e, node, registry) ==
    /\ e.call.node = node
    /\ e.call.cmd.argv = <<"bash", "-c", "cat >">>
    /\ e.call.cmd.path = <<"/etc/containerd/certs.d/", registry, "/hosts.toml">>

\* the successful writes of a registry's hosts.toml on a node, as positions of execLog
WritesOn(node, registry) ==
    {p \in DOMAIN execLog : execLog[p].ok /\ IsWriteCall(execLog[p], node, registry)}

\* the hosts.toml a node is left with: <<>> when no write succeeded, else the
\* content of the last write that did
FileLeft(node, registry) ==
    LET ws == WritesOn(node, registry)
    IN  IF ws = {} THEN << >>
        ELSE << execLog[CHOOSE p \in ws : \A q \in ws : q <= p].call.cmd.body >>

\* command-major order: with n nodes, the call number (c - 1) * n + m runs command
\* c on node m, and the result lines follow the calls one for one
CommandMajorOrder ==
    LET cmds == mirrorCfg[1].PostCreateCommands
        n    == Len(nodes)
        pcs  == ProvisioningCalls
    IN  /\ Len(pcs) = Len(cmds) * n
        /\ \A c \in DOMAIN cmds : \A m \in DOMAIN nodes :
              /\ pcs[(c - 1) * n + m].call.node = nodes[m]
              /\ pcs[(c - 1) * n + m].call.cmd = cmds[c].Command
        /\ \A p \in DOMAIN pcs : execLog[p] = pcs[p]
        /\ Len(applyRet[1].results) = Len(execLog)
        /\ \A p \in DOMAIN execLog :
              /\ applyRet[1].results[p].node = execLog[p].call.node
              /\ applyRet[1].results[p].status = (IF execLog[p].ok THEN "OK" ELSE "FAILED")
              /\ p <= Len(pcs) =>
                    applyRet[1].results[p].desc = cmds[((p - 1) \div n) + 1].Description

\* on every node the directory of a registry is created before its hosts.toml is written
MkdirBeforeWrite ==
    \A q \in DOMAIN execLog : \A i \in DOMAIN overrides : \A m \in DOMAIN nodes :
        IsWriteCall(execLog[q], nodes[m], overrides[i].Original) =>
            \E p \in 1..(q - 1) : IsMkdirCall(execLog[p], nodes[m], overrides[i].Original)

C29_EarlierFileStays ==
    /\ ApplyReturnedOK /\ Generated /\ Len(overrides) = 2
    /\ overrides[1].Original = overrides[2].Original
    /\ overrides[1].Mirror # overrides[2].Mirror
    /\ \E m \in DOMAIN nodes : FileLeft(nodes[m], "docker.io") = << HostsTomlOf(1) >>

\* ------------------------------------------------------------------ generate_cluster_config

\* the ConfigOptions handleGenerateClusterConfig builds from a request: the name as
\* given, one control plane unless control_planes is positive, the other arguments
\* as given
RequestOptions ==
    { [ZeroConfigOptions EXCEPT
          !.ClusterName = name, !.NumControlPlanes = c, !.NumWorkers = w,
          !.KubernetesVersion = version,
          !.PodSubnet = net.PodSubnet, !.ServiceSubnet = net.ServiceSubnet,
          !.DisableDefaultCNI = net.DisableDefaultCNI, !.IPFamily = net.IPFamily,
          !.KubeProxyMode = net.KubeProxyMode, !.APIServerPort = net.APIServerPort] :
        name \in {"", "demo"},
        c \in 1..MaxControlPlanes,
        w \in (-1)..MaxWorkers,
        version \in {<<>>, <<"1.31.0">>},
        net \in {n \in NetworkingOptions : n.IPFamily = "" /\ n.KubeProxyMode = ""} }

\* the mount handleGenerateClusterConfig makes of a credential file
CredentialFileMount(info) ==
    [HostPath |-> info.FilePath, ContainerPath |-> info.MountPath, ReadOnly |-> TRUE,
     Propagation |-> ""]

\* handleGenerateClusterConfig is called: FindCredentials runs only when
\* mount_credentials is set
ConfigToolInit ==
    /\ cfgSource = "GenerateConfig"
    /\ opts \in RequestOptions
    /\ configYAML = EmptyText
    /\ cfgErr = ""
    /\ valErr = ""
    /\ kpc = "mount"
    /\ mountCredentials \in BOOLEAN
    /\ IF mountCredentials THEN ToolCredInit ELSE CredIdle
    /\ ApplyIdle
    /\ CreateIdle
    /\ ManagerIdle
    /\ DetectIdle

\* mutant of HandleMountCredentials: only inline credentials are mounted
HandleMountCredentials_InlineOnly ==
    /\ kpc = "mount"
    /\ mountCredentials => cpc = "done"
    /\ opts' = IF mountCredentials /\ credRet[1].err = "" /\ credRet[1].info[1].InlineAuth
               THEN [opts EXCEPT !.ExtraMounts =
                        Append(opts.ExtraMounts, CredentialFileMount(credRet[1].info[1]))]
               ELSE opts
    /\ kpc' = "generate"
    /\ UNCHANGED <<cfgSource, configYAML, cfgErr, valErr, mountCredentials>>
    /\ UNCHANGED notConfig

\* handleGenerateClusterConfig, "Mount credentials if requested": a failed discovery
\* is logged and nothing else
HandleMountCredentials ==
    /\ kpc = "mount"
    /\ mountCredentials => cpc = "done"
    /\ opts' = IF mountCredentials /\ credRet[1].err = ""
               THEN [opts EXCEPT !.ExtraMounts =
                        Append(opts.ExtraMounts, CredentialFileMount(credRet[1].info[1]))]
               ELSE opts
    /\ kpc' = "generate"
    /\ UNCHANGED <<cfgSource, configYAML, cfgErr, valErr, mountCredentials>>
    /\ UNCHANGED notConfig

ConfigToolNext == CredNext \/ HandleMountCredentials \/ ConfigGenerate

SpecConfigTool == ConfigToolInit /\ [][ConfigToolNext]_vars

\* ------------------------------------------------------------------ claims: generate_cluster_config

\* handleGenerateClusterConfig has called GenerateConfig
ConfigToolReturned == kpc \in {"validate", "done"}

\* FindCredentials was asked and found a credential file / found none
DiscoverySucceeded == mountCredentials /\ credRet # << >> /\ credRet[1].err = ""

DiscoveryFailed == mountCredentials /\ credRet # << >> /\ credRet[1].err # ""

C30_InlineWitness ==
    /\ ConfigToolReturned /\ DiscoverySucceeded /\ cfgErr = ""
    /\ credRet[1].info[1].InlineAuth
    /\ \A i \in DOMAIN DocumentNodes : Len(DocumentNodes[i].ExtraMounts) = 1

\* C30 witness: discovery failed and a document without mounts came back
C30_FailedDiscoveryWitness ==
    /\ ConfigToolReturned /\ DiscoveryFailed /\ cfgErr = ""
    /\ Len(DocumentNodes) >= 2
    /\ \A i \in DOMAIN DocumentNodes : DocumentNodes[i].ExtraMounts = << >>

====
